---- MODULE Spec2Model ----
(***************************************************************************)
(* Ledger and product-lifecycle engine of the banking application          *)
(* (src/main.py): accounts, transaction recording, two-phase transfers,    *)
(* loans and fixed deposits, together with the Transfer panel of the       *)
(* dashboard that stages, confirms and cancels a transfer.                 *)
(*                                                                         *)
(* Every function of the source is an operator from the store it works on  *)
(* (the dictionaries of st.session_state, with the count of uuid4() values *)
(* drawn) to the store it leaves and the pair it returns; an action of the *)
(* program is one call of a function, or one handler of the dashboard.     *)
(*                                                                         *)
(* Time is counted in ticks of half a second, so that formatting a time    *)
(* with "%Y-%m-%d %H:%M:%S" (strftime) loses the sub-second part and       *)
(* parsing it back (strptime) does not restore it.                         *)
(* A loan's remaining_balance is the float amount * 1.05; the model keeps  *)
(* it as an exact count of twentieths (remaining_balance * 20).            *)
(***************************************************************************)
EXTENDS Integers, Sequences, FiniteSets, TLC

\* ---------------------------------------------------------------- bounds
MaxUuid == 5           \* uuid4() values drawn in one run of the transfer operations
MaxDraws == 4          \* uuid4() values drawn in one run of all the operations
MaxFailures == 1       \* failing calls a run is followed through
MaxAmount == 1         \* largest amount passed to an operation
MaxJumps == 1          \* the clock advances at most this many times
StartBalance == 1      \* initial deposit of the account found at start-up
MaxCount == 6          \* largest count of failed attempts followed
MaxWrong == 1          \* the same, where the dashboard is followed too
MaxIdles == 1          \* the times a session is left idle
MaxLoan == 20          \* the largest loan
MaxMonths == 2         \* the longest loan, in months
MaxPrincipal == 100    \* the largest fixed deposit
MaxTerm == 6           \* the longest fixed deposit, in months
MaxDepositDraws == 6   \* uuid4() values drawn in one run of the fixed deposits
MaxLoanDraws == 6      \* uuid4() values drawn in one run of the loan operations
MaxSeconds == 3600     \* the clock is followed through this many seconds of a day
MaxDays == 1           \* and through this many days
MaxSavedDraws == 3     \* uuid4() values drawn in one run of the saving operations
MaxMoveDraws == 4      \* uuid4() values drawn in one run of the signed amounts
MaxShared == 2         \* largest amount of a request on the shared file
MaxSharedDraws == 6    \* uuid4() values drawn in one run of the two sessions

\* ------------------------------------------------------ program constants
LOAN_RATE_PCT == 5               \* LOAN_INTEREST_RATE = 0.05
FIXED_DEPOSIT_RATE_PCT == 7      \* FIXED_DEPOSIT_INTEREST = 0.07
MIN_ACCOUNT_AGE_DAYS == 90       \* (now - created).days < 90
FD_MONTH_DAYS == 30              \* timedelta(days=30*duration_months)
SESSION_TIMEOUT == 1800          \* SESSION_TIMEOUT = 1800
MAX_ATTEMPTS == 5                \* failed_attempts[username]['count'] >= 5
LOCK_SECONDS == 3600             \* (...).seconds < 3600
TicksPerSecond == 2
SecondsPerDay == 86400
RemScale == 20                   \* remaining_balance is kept in 1/20 units

Usernames == {"alice", "bob", "carol"}
TwoNames == {"alice", "bob"}
Emails == {"a@x", "b@x", "c@x"}
Passwords == {"Pw1"}
AccountIds == {"id1", "id2"}     \* values of str(uuid.uuid4())[:8]
Amounts == 0 .. MaxAmount
Durations == 0 .. 1
None == "None"
NoTime == <<>>                   \* None, where a time is kept otherwise

VARIABLES
    accounts,              \* st.session_state.accounts: username -> account
    transactions,          \* st.session_state.transactions: username -> history
    transfer_data,         \* st.session_state.transfer_data: transfer id -> details
    loans,                 \* st.session_state.loans: username -> loans
    fixed_deposits,        \* st.session_state.fixed_deposits: username -> FDs
    transfer_confirmation, \* st.session_state.transfer_confirmation
    transfer_id,           \* st.session_state.transfer_id
    failed_attempts,       \* st.session_state.failed_attempts: username -> count, timestamp
    authenticated,         \* st.session_state.authenticated
    current_user,          \* st.session_state.current_user
    login_time,            \* st.session_state.login_time
    file,                  \* the content of DATA_FILE
    uuid,                  \* number of uuid4() values drawn so far
    now,                   \* the clock, in ticks
    ret,                   \* the last step: the call made and what it returned
    failures,              \* history: the calls that returned failure, counted
    confirmed,             \* history: transfer ids whose confirmation succeeded
    cancelled,             \* history: transfer ids whose Cancel button was pressed
    failed_at              \* history: username -> the tick of its last recorded failure

ledgerVars == <<accounts, transactions, loans, fixed_deposits>>
storeVars == <<accounts, transactions, transfer_data, loans, fixed_deposits, uuid,
              failed_attempts, authenticated, current_user, login_time, file>>
loginVars == <<failed_attempts, authenticated, current_user, login_time>>
sessVars == <<transfer_confirmation, transfer_id>>
histVars == <<confirmed, cancelled, failed_at>>
clockVars == <<now, failures>>
vars == <<accounts, transactions, transfer_data, loans, fixed_deposits,
          transfer_confirmation, transfer_id, uuid, now, ret, failures,
          confirmed, cancelled, failed_at,
          failed_attempts, authenticated, current_user, login_time, file>>

\* ---------------------------------------------------------------- helpers
\* datetime.now().strftime("%Y-%m-%d %H:%M:%S"): the time to the whole second
strftime(t) == t \div TicksPerSecond

\* datetime.strptime(s, "%Y-%m-%d %H:%M:%S"): the first tick of that second
strptime(s) == s * TicksPerSecond

\* timedelta(days=d)
timedelta_days(d) == d * SecondsPerDay * TicksPerSecond

\* (a - b).days for two datetimes: the whole days of the difference (floor)
days_between(a, b) == (a - b) \div timedelta_days(1)

\* (a - b).seconds for two datetimes: the whole seconds of the difference that
\* its days leave over
timedelta_seconds(a, b) == ((a - b) \div TicksPerSecond) % SecondsPerDay

\* hashlib.sha256(password.encode()).hexdigest()
hash_password(password) == <<"sha256", password>>

\* Python's round() of the rational n / d (d > 0): to nearest, ties to even
round_div(n, d) ==
    LET q == n \div d
        r == n % d
    IN  IF 2 * r < d THEN q
        ELSE IF 2 * r > d THEN q + 1
        ELSE IF q % 2 = 0 THEN q ELSE q + 1

\* a dict d with d[k] = v assigned
put(d, k, v) == [x \in DOMAIN d \cup {k} |-> IF x = k THEN v ELSE d[x]]

\* a dict d with del d[k]
del(d, k) == [x \in DOMAIN d \ {k} |-> d[x]]

\* an insertion-ordered dict of records keyed by field id, with entry rec stored
\* under rec.id: a new key is appended, an existing key is overwritten in place
put_entry(entries, rec) ==
    IF \E i \in 1..Len(entries) : entries[i].id = rec.id
    THEN [i \in 1..Len(entries) |-> IF entries[i].id = rec.id THEN rec ELSE entries[i]]
    ELSE Append(entries, rec)

\* d.get(k, {}) for a dict of insertion-ordered dicts
entries_of(d, k) == IF k \in DOMAIN d THEN d[k] ELSE <<>>

ids_of(entries) == {entries[i].id : i \in 1..Len(entries)}

entry(entries, id) == entries[CHOOSE i \in 1..Len(entries) : entries[i].id = id]

\* what a call leaves and returns: the store, and the pair (success, message)
\* with the identifier the message carries
Returned(st, ok, msg, val) == [st |-> st, ok |-> ok, msg |-> msg, val |-> val]

\* DATA_FILE when os.path.exists(DATA_FILE) is false
NoFile == <<>>

\* init_session_state(): the empty store, with no DATA_FILE. The field written
\* holds what the call under way has written to DATA_FILE, write by write.
EmptyStore ==
    [accounts |-> <<>>, transactions |-> <<>>, transfer_data |-> <<>>,
     loans |-> <<>>, fixed_deposits |-> <<>>, uuid |-> 0,
     failed_attempts |-> <<>>, authenticated |-> FALSE, current_user |-> None,
     login_time |-> NoTime, file |-> NoFile, written |-> <<>>]

\* ------------------------------------------------- load_data, save_data
\* json.dump(data, f) of a dict data with the keys keys, in that order: the
\* members of the JSON object, name and value. Every value the program stores
\* is a str, an int, a float, None or a dict with str keys of such values,
\* which json.load gives back as it was.
json_dump(keys, data) == [i \in 1..Len(keys) |-> <<keys[i], data[keys[i]]>>]

\* json.load(f).get(key, {})
json_get(document, key) ==
    IF \E i \in 1..Len(document) : document[i][1] = key
    THEN document[CHOOSE i \in 1..Len(document) : document[i][1] = key][2]
    ELSE <<>>

\* save_data as it would be if it left the failed attempts out
save_data_without_attempts(st) ==
    LET data == [accounts |-> st.accounts,
                 transactions |-> st.transactions,
                 loans |-> st.loans,
                 fixed_deposits |-> st.fixed_deposits]
        document == json_dump(<<"accounts", "transactions", "loans", "fixed_deposits">>, data)
    IN  [st EXCEPT !.file = document, !.written = Append(@, document)]

\* save_data(): DATA_FILE is written anew
save_data(st) ==
    LET data == [accounts |-> st.accounts,
                 transactions |-> st.transactions,
                 loans |-> st.loans,
                 fixed_deposits |-> st.fixed_deposits,
                 failed_attempts |-> st.failed_attempts]
        document == json_dump(<<"accounts", "transactions", "loans", "fixed_deposits",
                                "failed_attempts">>, data)
    IN  [st EXCEPT !.file = document, !.written = Append(@, document)]

\* load_data(): the store, with what DATA_FILE holds when there is one
load_data(st) ==
    IF st.file = NoFile
    THEN st
    ELSE [st EXCEPT !.accounts = json_get(st.file, "accounts"),
                    !.transactions = json_get(st.file, "transactions"),
                    !.loans = json_get(st.file, "loans"),
                    !.fixed_deposits = json_get(st.file, "fixed_deposits"),
                    !.failed_attempts = json_get(st.file, "failed_attempts")]

\* ------------------------------------------------- check_session_timeout
\* check_session_timeout as it would be if the session ended at the limit itself
check_session_timeout_at_limit(st) ==
    IF /\ st.login_time # NoTime
       /\ st.authenticated
       /\ now - st.login_time[1] >= SESSION_TIMEOUT * TicksPerSecond
    THEN Returned([st EXCEPT !.authenticated = FALSE, !.current_user = None],
                  TRUE, "Session timed out due to inactivity. Please login again.", 1)
    ELSE Returned(st, TRUE, "", 0)

\* val is 1 when the function returns True; time.time() is never 0.0, so a
\* login_time is false only when it is None
check_session_timeout(st) ==
    IF /\ st.login_time # NoTime
       /\ st.authenticated
       /\ now - st.login_time[1] > SESSION_TIMEOUT * TicksPerSecond
    THEN Returned([st EXCEPT !.authenticated = FALSE, !.current_user = None],
                  TRUE, "Session timed out due to inactivity. Please login again.", 1)
    ELSE Returned(st, TRUE, "", 0)

\* ------------------------------------------------------------ authenticate
\* the lock test as it would be with a window of half the length
is_locked_half_window(st, username) ==
    /\ username \in DOMAIN st.failed_attempts
    /\ st.failed_attempts[username].count >= MAX_ATTEMPTS
    /\ 2 * timedelta_seconds(now, strptime(st.failed_attempts[username].timestamp)) < LOCK_SECONDS

\* whether authenticate finds username locked
is_locked(st, username) ==
    /\ username \in DOMAIN st.failed_attempts
    /\ st.failed_attempts[username].count >= MAX_ATTEMPTS
    /\ timedelta_seconds(now, strptime(st.failed_attempts[username].timestamp)) < LOCK_SECONDS

\* authenticate as it would be if a successful login left the failures in place
authenticate_keeps_failures(st, username, password) ==
    IF is_locked(st, username)
    THEN Returned(st, FALSE, "Account locked due to too many failed attempts. Try again later.", 0)
    ELSE IF username \notin DOMAIN st.accounts
    THEN Returned(st, FALSE, "Username not found", 0)
    ELSE IF st.accounts[username].password # hash_password(password)
    THEN LET count == IF username \in DOMAIN st.failed_attempts
                      THEN st.failed_attempts[username].count + 1
                      ELSE 1
             st1 == save_data([st EXCEPT !.failed_attempts =
                        put(@, username, [count |-> count, timestamp |-> strftime(now)])])
             remaining_attempts == MAX_ATTEMPTS - count
         IN  IF remaining_attempts <= 0
             THEN Returned(st1, FALSE, "Account locked due to too many failed attempts. Try again later.", 0)
             ELSE Returned(st1, FALSE, "Incorrect password", remaining_attempts)
    ELSE LET st2 == [st EXCEPT !.authenticated = TRUE,
                               !.current_user = username,
                               !.login_time = <<now>>,
                               !.accounts[username].last_login = <<strftime(now)>>]
         IN  Returned(save_data(st2), TRUE, "Login successful", 0)

\* authenticate as it would be if it counted the failure before looking for the account
authenticate_counts_unknown(st, username, password) ==
    IF is_locked(st, username)
    THEN Returned(st, FALSE, "Account locked due to too many failed attempts. Try again later.", 0)
    ELSE IF username \notin DOMAIN st.accounts
    THEN Returned(save_data([st EXCEPT !.failed_attempts =
                      put(@, username, [count |-> 1, timestamp |-> strftime(now)])]),
                  FALSE, "Username not found", 0)
    ELSE IF st.accounts[username].password # hash_password(password)
    THEN LET count == IF username \in DOMAIN st.failed_attempts
                      THEN st.failed_attempts[username].count + 1
                      ELSE 1
             st1 == save_data([st EXCEPT !.failed_attempts =
                        put(@, username, [count |-> count, timestamp |-> strftime(now)])])
             remaining_attempts == MAX_ATTEMPTS - count
         IN  IF remaining_attempts <= 0
             THEN Returned(st1, FALSE, "Account locked due to too many failed attempts. Try again later.", 0)
             ELSE Returned(st1, FALSE, "Incorrect password", remaining_attempts)
    ELSE LET st1 == IF username \in DOMAIN st.failed_attempts
                    THEN save_data([st EXCEPT !.failed_attempts = del(@, username)])
                    ELSE st
             st2 == [st1 EXCEPT !.authenticated = TRUE,
                                !.current_user = username,
                                !.login_time = <<now>>,
                                !.accounts[username].last_login = <<strftime(now)>>]
         IN  Returned(save_data(st2), TRUE, "Login successful", 0)

\* val is the number of remaining attempts the message carries
authenticate(st, username, password) ==
    IF is_locked(st, username)
    THEN Returned(st, FALSE, "Account locked due to too many failed attempts. Try again later.", 0)
    ELSE IF username \notin DOMAIN st.accounts
    THEN Returned(st, FALSE, "Username not found", 0)
    ELSE IF st.accounts[username].password # hash_password(password)
    THEN LET count == IF username \in DOMAIN st.failed_attempts
                      THEN st.failed_attempts[username].count + 1
                      ELSE 1
             st1 == save_data([st EXCEPT !.failed_attempts =
                        put(@, username, [count |-> count, timestamp |-> strftime(now)])])
             remaining_attempts == MAX_ATTEMPTS - count
         IN  IF remaining_attempts <= 0
             THEN Returned(st1, FALSE, "Account locked due to too many failed attempts. Try again later.", 0)
             ELSE Returned(st1, FALSE, "Incorrect password", remaining_attempts)
    ELSE LET st1 == IF username \in DOMAIN st.failed_attempts
                    THEN save_data([st EXCEPT !.failed_attempts = del(@, username)])
                    ELSE st
             st2 == [st1 EXCEPT !.authenticated = TRUE,
                                !.current_user = username,
                                !.login_time = <<now>>,
                                !.accounts[username].last_login = <<strftime(now)>>]
         IN  Returned(save_data(st2), TRUE, "Login successful", 0)

\* ------------------------------------------------------ record_transaction
\* record_transaction as it would be if it kept only the newest record
record_transaction_latest_only(st, username, transaction_type, amount, id, description) ==
    save_data(
        [st EXCEPT !.transactions =
            put(@, username,
                <<[type |-> transaction_type,
                   amount |-> amount,
                   timestamp |-> strftime(now),
                   balance_after |-> st.accounts[username].balance,
                   id |-> id,
                   description |-> description]>>)])

\* The store after record_transaction(username, type, amount, id, description):
\* the record is stamped with the balance the account has when it is recorded.
\* A call without transaction_id draws one.
record_transaction(st, username, transaction_type, amount, id, description) ==
    save_data(
        [st EXCEPT !.transactions =
            put(@, username,
                put_entry(entries_of(@, username),
                          [type |-> transaction_type,
                           amount |-> amount,
                           timestamp |-> strftime(now),
                           balance_after |-> st.accounts[username].balance,
                           id |-> id,
                           description |-> description]))])

\* st.session_state.accounts[username]['balance'] += delta
add_balance(st, username, delta) ==
    [st EXCEPT !.accounts[username].balance = @ + delta]

\* str(uuid.uuid4()): the store with one more value drawn; the value is st.uuid
draw(st) == [st EXCEPT !.uuid = @ + 1]

\* create_account as it would be without the scan for the email
create_account_any_email(st, username, password, email, initial_deposit, account_id) ==
    IF username \in DOMAIN st.accounts
    THEN Returned(st, FALSE, "Username already exists", 0)
    ELSE LET st1 == [st EXCEPT !.accounts =
                        put(@, username,
                            [password |-> hash_password(password),
                             balance |-> initial_deposit,
                             created |-> strftime(now),
                             account_id |-> account_id,
                             email |-> email,
                             last_login |-> NoTime,
                             account_type |-> "standard",
                             status |-> "active"])]
             st2 == IF initial_deposit > 0
                    THEN record_transaction(draw(st1), username, "Account Creation Deposit",
                                            initial_deposit, draw(st1).uuid, None)
                    ELSE st1
         IN  Returned(save_data(st2), TRUE, "Account created successfully!", 0)

\* ----------------------------------------------------------- create_account
\* create_account(username, password, email, initial_deposit); account_id is
\* the value str(uuid.uuid4())[:8] happens to give.
create_account(st, username, password, email, initial_deposit, account_id) ==
    IF username \in DOMAIN st.accounts
    THEN Returned(st, FALSE, "Username already exists", 0)
    ELSE IF \E user \in DOMAIN st.accounts : st.accounts[user].email = email
    THEN Returned(st, FALSE, "Email already registered with another account", 0)
    ELSE LET st1 == [st EXCEPT !.accounts =
                        put(@, username,
                            [password |-> hash_password(password),
                             balance |-> initial_deposit,
                             created |-> strftime(now),
                             account_id |-> account_id,
                             email |-> email,
                             last_login |-> NoTime,
                             account_type |-> "standard",
                             status |-> "active"])]
             st2 == IF initial_deposit > 0
                    THEN record_transaction(draw(st1), username, "Account Creation Deposit",
                                            initial_deposit, draw(st1).uuid, None)
                    ELSE st1
         IN  Returned(save_data(st2), TRUE, "Account created successfully!", 0)

\* deposit as it would be with the record written before the balance is raised
deposit_record_first(st, username, amount) ==
    IF amount <= 0
    THEN Returned(st, FALSE, "Amount must be positive", 0)
    ELSE LET st1 == draw(st)
             st2 == record_transaction(st1, username, "Deposit", amount, st1.uuid, None)
         IN  Returned(add_balance(st2, username, amount), TRUE, "Deposited", st1.uuid)

\* ------------------------------------------------------------------ deposit
deposit(st, username, amount) ==
    IF amount <= 0
    THEN Returned(st, FALSE, "Amount must be positive", 0)
    ELSE LET st1 == draw(add_balance(st, username, amount))
             st2 == record_transaction(st1, username, "Deposit", amount, st1.uuid, None)
         IN  Returned(st2, TRUE, "Deposited", st1.uuid)

\* withdraw as it would be with the balance lowered before the funds are checked
withdraw_debit_first(st, username, amount) ==
    IF amount <= 0
    THEN Returned(st, FALSE, "Amount must be positive", 0)
    ELSE LET st0 == add_balance(st, username, -amount)
         IN  IF st0.accounts[username].balance < 0
             THEN Returned(st0, FALSE, "Insufficient funds", 0)
             ELSE LET st1 == draw(st0)
                      st2 == record_transaction(st1, username, "Withdrawal", amount, st1.uuid, None)
                  IN  Returned(st2, TRUE, "Withdrew", st1.uuid)

\* ----------------------------------------------------------------- withdraw
withdraw(st, username, amount) ==
    IF amount <= 0
    THEN Returned(st, FALSE, "Amount must be positive", 0)
    ELSE IF amount > st.accounts[username].balance
    THEN Returned(st, FALSE, "Insufficient funds", 0)
    ELSE LET st1 == draw(add_balance(st, username, -amount))
             st2 == record_transaction(st1, username, "Withdrawal", amount, st1.uuid, None)
         IN  Returned(st2, TRUE, "Withdrew", st1.uuid)

\* initiate_transfer as it would be if it refused an amount equal to the balance
initiate_transfer_strict(st, sender_username, recipient_username, recipient_account_id, amount, description) ==
    IF recipient_username \notin DOMAIN st.accounts
    THEN Returned(st, FALSE, "Recipient username not found", 0)
    ELSE IF st.accounts[recipient_username].account_id # recipient_account_id
    THEN Returned(st, FALSE, "Account ID doesn't match the username", 0)
    ELSE IF sender_username = recipient_username
    THEN Returned(st, FALSE, "Cannot transfer to yourself", 0)
    ELSE IF amount >= st.accounts[sender_username].balance
    THEN Returned(st, FALSE, "Insufficient funds for transfer", 0)
    ELSE LET st1 == draw(st)
             st2 == [st1 EXCEPT !.transfer_data =
                        put(@, st1.uuid,
                            [sender |-> sender_username,
                             recipient |-> recipient_username,
                             recipient_account_id |-> recipient_account_id,
                             amount |-> amount,
                             timestamp |-> strftime(now),
                             description |-> description])]
         IN  Returned(st2, TRUE, "transfer_id", st1.uuid)

\* initiate_transfer as it would be if it set the amount aside at once
initiate_transfer_reserves(st, sender_username, recipient_username, recipient_account_id, amount, description) ==
    IF recipient_username \notin DOMAIN st.accounts
    THEN Returned(st, FALSE, "Recipient username not found", 0)
    ELSE IF st.accounts[recipient_username].account_id # recipient_account_id
    THEN Returned(st, FALSE, "Account ID doesn't match the username", 0)
    ELSE IF sender_username = recipient_username
    THEN Returned(st, FALSE, "Cannot transfer to yourself", 0)
    ELSE IF amount > st.accounts[sender_username].balance
    THEN Returned(st, FALSE, "Insufficient funds for transfer", 0)
    ELSE LET st1 == draw(add_balance(st, sender_username, -amount))
             st2 == [st1 EXCEPT !.transfer_data =
                        put(@, st1.uuid,
                            [sender |-> sender_username,
                             recipient |-> recipient_username,
                             recipient_account_id |-> recipient_account_id,
                             amount |-> amount,
                             timestamp |-> strftime(now),
                             description |-> description])]
         IN  Returned(st2, TRUE, "transfer_id", st1.uuid)

\* -------------------------------------------------------- initiate_transfer
initiate_transfer(st, sender_username, recipient_username, recipient_account_id, amount, description) ==
    IF recipient_username \notin DOMAIN st.accounts
    THEN Returned(st, FALSE, "Recipient username not found", 0)
    ELSE IF st.accounts[recipient_username].account_id # recipient_account_id
    THEN Returned(st, FALSE, "Account ID doesn't match the username", 0)
    ELSE IF sender_username = recipient_username
    THEN Returned(st, FALSE, "Cannot transfer to yourself", 0)
    ELSE IF amount > st.accounts[sender_username].balance
    THEN Returned(st, FALSE, "Insufficient funds for transfer", 0)
    ELSE LET st1 == draw(st)
             st2 == [st1 EXCEPT !.transfer_data =
                        put(@, st1.uuid,
                            [sender |-> sender_username,
                             recipient |-> recipient_username,
                             recipient_account_id |-> recipient_account_id,
                             amount |-> amount,
                             timestamp |-> strftime(now),
                             description |-> description])]
         IN  Returned(st2, TRUE, "transfer_id", st1.uuid)

\* confirm_transfer as it would be with a transaction id of its own for each leg
confirm_transfer_two_ids(st, tid) ==
    IF tid \notin DOMAIN st.transfer_data
    THEN Returned(st, FALSE, "Invalid transfer request", 0)
    ELSE LET transfer_details == st.transfer_data[tid]
             sender == transfer_details.sender
             recipient == transfer_details.recipient
             amount == transfer_details.amount
             description == transfer_details.description
             st1 == add_balance(add_balance(st, sender, -amount), recipient, amount)
             st2 == draw(st1)
             st3 == record_transaction(st2, sender, "Transfer Out", amount,
                                       st2.uuid, description)
             st4 == record_transaction(draw(st3), recipient, "Transfer In", amount,
                                       draw(st3).uuid, description)
             st5 == [st4 EXCEPT !.transfer_data = del(@, tid)]
         IN  Returned(st5, TRUE, "Transferred", st2.uuid)

\* confirm_transfer as it would be without the del of the pending entry
confirm_transfer_keeps_entry(st, tid) ==
    IF tid \notin DOMAIN st.transfer_data
    THEN Returned(st, FALSE, "Invalid transfer request", 0)
    ELSE LET transfer_details == st.transfer_data[tid]
             sender == transfer_details.sender
             recipient == transfer_details.recipient
             amount == transfer_details.amount
             description == transfer_details.description
             st1 == add_balance(add_balance(st, sender, -amount), recipient, amount)
             st2 == draw(st1)
             transaction_id == st2.uuid
             st3 == record_transaction(st2, sender, "Transfer Out", amount,
                                       transaction_id, description)
             st4 == record_transaction(st3, recipient, "Transfer In", amount,
                                       transaction_id, description)
         IN  Returned(st4, TRUE, "Transferred", transaction_id)

\* confirm_transfer as it would be with the sender's funds checked again
confirm_transfer_rechecks(st, tid) ==
    IF tid \notin DOMAIN st.transfer_data
    THEN Returned(st, FALSE, "Invalid transfer request", 0)
    ELSE LET transfer_details == st.transfer_data[tid]
             sender == transfer_details.sender
             recipient == transfer_details.recipient
             amount == transfer_details.amount
             description == transfer_details.description
             st1 == add_balance(add_balance(st, sender, -amount), recipient, amount)
             st2 == draw(st1)
             transaction_id == st2.uuid
             st3 == record_transaction(st2, sender, "Transfer Out", amount,
                                       transaction_id, description)
             st4 == record_transaction(st3, recipient, "Transfer In", amount,
                                       transaction_id, description)
             st5 == [st4 EXCEPT !.transfer_data = del(@, tid)]
         IN  IF amount > st.accounts[sender].balance
             THEN Returned(st, FALSE, "Insufficient funds for transfer", 0)
             ELSE Returned(st5, TRUE, "Transferred", transaction_id)

\* --------------------------------------------------------- confirm_transfer
confirm_transfer(st, tid) ==
    IF tid \notin DOMAIN st.transfer_data
    THEN Returned(st, FALSE, "Invalid transfer request", 0)
    ELSE LET transfer_details == st.transfer_data[tid]
             sender == transfer_details.sender
             recipient == transfer_details.recipient
             amount == transfer_details.amount
             description == transfer_details.description
             st1 == add_balance(add_balance(st, sender, -amount), recipient, amount)
             st2 == draw(st1)
             transaction_id == st2.uuid
             st3 == record_transaction(st2, sender, "Transfer Out", amount,
                                       transaction_id, description)
             st4 == record_transaction(st3, recipient, "Transfer In", amount,
                                       transaction_id, description)
             st5 == [st4 EXCEPT !.transfer_data = del(@, tid)]
         IN  Returned(st5, TRUE, "Transferred", transaction_id)

\* ----------------------------------------------------------- apply_for_loan
\* calculate_monthly_payment as it would be with halves rounded up
calculate_monthly_payment_half_up(principal, months) ==
    (2 * principal * (100 + LOAN_RATE_PCT) + 100 * months) \div (2 * 100 * months)

\* round(principal * (1 + LOAN_INTEREST_RATE) / months), for integers. The
\* program computes in binary64: principal * 1.05 is the double nearest to the
\* exact product, and a quotient that lies on a half is a multiple of 0.5 that
\* the double holds exactly, so that round() gives what the exact quotient gives.
calculate_monthly_payment(principal, months) ==
    round_div(principal * (100 + LOAN_RATE_PCT), 100 * months)

\* has_active_loan as it would be if no loan counted as active
has_active_loan_none(st, username) ==
    FALSE

\* some loan of username has status 'active'
has_active_loan(st, username) ==
    /\ username \in DOMAIN st.loans
    /\ \E i \in 1..Len(st.loans[username]) : st.loans[username][i].status = "active"

\* apply_for_loan as it would be with the duration checked before the amount
apply_for_loan_duration_first(st, username, amount, duration_months) ==
    IF duration_months <= 0
    THEN Returned(st, FALSE, "Loan duration must be positive", 0)
    ELSE IF amount <= 0
    THEN Returned(st, FALSE, "Loan amount must be positive", 0)
    ELSE IF days_between(now, strptime(st.accounts[username].created)) < MIN_ACCOUNT_AGE_DAYS
    THEN Returned(st, FALSE, "Account must be at least 3 months old to apply for a loan", 0)
    ELSE IF has_active_loan(st, username)
    THEN Returned(st, FALSE, "You already have an active loan", 0)
    ELSE LET st1 == draw(st)
             loan_id == st1.uuid
             loan == [id |-> loan_id,
                      amount |-> amount,
                      duration_months |-> duration_months,
                      interest_rate |-> LOAN_RATE_PCT,
                      monthly_payment |-> calculate_monthly_payment(amount, duration_months),
                      \* amount * (1 + LOAN_INTEREST_RATE), in twentieths: the double is
                      \* within 1e-9 of it, and equal to it when it is a whole number
                      remaining_balance |-> (amount * (100 + LOAN_RATE_PCT) * RemScale) \div 100,
                      start_date |-> strftime(now),
                      status |-> "active",
                      payments_made |-> 0]
             st2 == [st1 EXCEPT !.loans = put(@, username, put_entry(entries_of(@, username), loan))]
             st3 == draw(add_balance(st2, username, amount))
             st4 == record_transaction(st3, username, "Loan Disbursement", amount,
                                       st3.uuid, <<"Loan ID", loan_id>>)
         IN  Returned(save_data(st4), TRUE, "Loan approved!", loan_id)

apply_for_loan(st, username, amount, duration_months) ==
    IF amount <= 0
    THEN Returned(st, FALSE, "Loan amount must be positive", 0)
    ELSE IF duration_months <= 0
    THEN Returned(st, FALSE, "Loan duration must be positive", 0)
    ELSE IF days_between(now, strptime(st.accounts[username].created)) < MIN_ACCOUNT_AGE_DAYS
    THEN Returned(st, FALSE, "Account must be at least 3 months old to apply for a loan", 0)
    ELSE IF has_active_loan(st, username)
    THEN Returned(st, FALSE, "You already have an active loan", 0)
    ELSE LET st1 == draw(st)
             loan_id == st1.uuid
             loan == [id |-> loan_id,
                      amount |-> amount,
                      duration_months |-> duration_months,
                      interest_rate |-> LOAN_RATE_PCT,
                      monthly_payment |-> calculate_monthly_payment(amount, duration_months),
                      \* amount * (1 + LOAN_INTEREST_RATE), in twentieths: the double is
                      \* within 1e-9 of it, and equal to it when it is a whole number
                      remaining_balance |-> (amount * (100 + LOAN_RATE_PCT) * RemScale) \div 100,
                      start_date |-> strftime(now),
                      status |-> "active",
                      payments_made |-> 0]
             st2 == [st1 EXCEPT !.loans = put(@, username, put_entry(entries_of(@, username), loan))]
             st3 == draw(add_balance(st2, username, amount))
             st4 == record_transaction(st3, username, "Loan Disbursement", amount,
                                       st3.uuid, <<"Loan ID", loan_id>>)
         IN  Returned(save_data(st4), TRUE, "Loan approved!", loan_id)

\* -------------------------------------------------------- make_loan_payment
\* make_loan_payment as it would be with the minimum checked before the funds
make_loan_payment_minimum_first(st, username, loan_id, amount) ==
    IF username \notin DOMAIN st.loans \/ loan_id \notin ids_of(st.loans[username])
    THEN Returned(st, FALSE, "Loan not found", 0)
    ELSE LET loan == entry(st.loans[username], loan_id)
         IN
         IF loan.status # "active"
         THEN Returned(st, FALSE, "Loan is not active", 0)
         ELSE IF amount <= 0
         THEN Returned(st, FALSE, "Payment amount must be positive", 0)
         ELSE IF amount < loan.monthly_payment
         THEN Returned(st, FALSE, "Minimum payment required", 0)
         ELSE IF amount > st.accounts[username].balance
         THEN Returned(st, FALSE, "Insufficient funds for payment", 0)
         ELSE LET paid1 == [loan EXCEPT !.remaining_balance = @ - amount * RemScale,
                                        !.payments_made = @ + 1]
                  paid2 == IF paid1.remaining_balance <= 0
                           THEN [end_date |-> strftime(now)] @@ [paid1 EXCEPT !.status = "paid"]
                           ELSE paid1
                  st1 == [add_balance(st, username, -amount)
                             EXCEPT !.loans[username] = put_entry(@, paid1)]
                  st2 == draw(st1)
                  st3 == record_transaction(st2, username, "Loan Payment", amount,
                                            st2.uuid, <<"Loan ID", loan_id>>)
                  st4 == [st3 EXCEPT !.loans[username] = put_entry(@, paid2)]
              IN  Returned(save_data(st4), TRUE, "Payment applied", 0)

\* make_loan_payment as it would be without the count of payments
make_loan_payment_uncounted(st, username, loan_id, amount) ==
    IF username \notin DOMAIN st.loans \/ loan_id \notin ids_of(st.loans[username])
    THEN Returned(st, FALSE, "Loan not found", 0)
    ELSE LET loan == entry(st.loans[username], loan_id)
         IN
         IF loan.status # "active"
         THEN Returned(st, FALSE, "Loan is not active", 0)
         ELSE IF amount <= 0
         THEN Returned(st, FALSE, "Payment amount must be positive", 0)
         ELSE IF amount > st.accounts[username].balance
         THEN Returned(st, FALSE, "Insufficient funds for payment", 0)
         ELSE IF amount < loan.monthly_payment
         THEN Returned(st, FALSE, "Minimum payment required", 0)
         ELSE LET paid1 == [loan EXCEPT !.remaining_balance = @ - amount * RemScale]
                  paid2 == IF paid1.remaining_balance <= 0
                           THEN [end_date |-> strftime(now)] @@ [paid1 EXCEPT !.status = "paid"]
                           ELSE paid1
                  st1 == [add_balance(st, username, -amount)
                             EXCEPT !.loans[username] = put_entry(@, paid1)]
                  st2 == draw(st1)
                  st3 == record_transaction(st2, username, "Loan Payment", amount,
                                            st2.uuid, <<"Loan ID", loan_id>>)
                  st4 == [st3 EXCEPT !.loans[username] = put_entry(@, paid2)]
              IN  Returned(save_data(st4), TRUE, "Payment applied", 0)

\* make_loan_payment as it would be if the loan were paid only below zero
make_loan_payment_below_zero(st, username, loan_id, amount) ==
    IF username \notin DOMAIN st.loans \/ loan_id \notin ids_of(st.loans[username])
    THEN Returned(st, FALSE, "Loan not found", 0)
    ELSE LET loan == entry(st.loans[username], loan_id)
         IN
         IF loan.status # "active"
         THEN Returned(st, FALSE, "Loan is not active", 0)
         ELSE IF amount <= 0
         THEN Returned(st, FALSE, "Payment amount must be positive", 0)
         ELSE IF amount > st.accounts[username].balance
         THEN Returned(st, FALSE, "Insufficient funds for payment", 0)
         ELSE IF amount < loan.monthly_payment
         THEN Returned(st, FALSE, "Minimum payment required", 0)
         ELSE LET paid1 == [loan EXCEPT !.remaining_balance = @ - amount * RemScale,
                                        !.payments_made = @ + 1]
                  paid2 == IF paid1.remaining_balance < 0
                           THEN [end_date |-> strftime(now)] @@ [paid1 EXCEPT !.status = "paid"]
                           ELSE paid1
                  st1 == [add_balance(st, username, -amount)
                             EXCEPT !.loans[username] = put_entry(@, paid1)]
                  st2 == draw(st1)
                  st3 == record_transaction(st2, username, "Loan Payment", amount,
                                            st2.uuid, <<"Loan ID", loan_id>>)
                  st4 == [st3 EXCEPT !.loans[username] = put_entry(@, paid2)]
              IN  Returned(save_data(st4), TRUE, "Payment applied", 0)

make_loan_payment(st, username, loan_id, amount) ==
    IF username \notin DOMAIN st.loans \/ loan_id \notin ids_of(st.loans[username])
    THEN Returned(st, FALSE, "Loan not found", 0)
    ELSE LET loan == entry(st.loans[username], loan_id)
         IN
         IF loan.status # "active"
         THEN Returned(st, FALSE, "Loan is not active", 0)
         ELSE IF amount <= 0
         THEN Returned(st, FALSE, "Payment amount must be positive", 0)
         ELSE IF amount > st.accounts[username].balance
         THEN Returned(st, FALSE, "Insufficient funds for payment", 0)
         ELSE IF amount < loan.monthly_payment
         THEN Returned(st, FALSE, "Minimum payment required", 0)
         ELSE LET paid1 == [loan EXCEPT !.remaining_balance = @ - amount * RemScale,
                                        !.payments_made = @ + 1]
                  paid2 == IF paid1.remaining_balance <= 0
                           THEN [end_date |-> strftime(now)] @@ [paid1 EXCEPT !.status = "paid"]
                           ELSE paid1
                  st1 == [add_balance(st, username, -amount)
                             EXCEPT !.loans[username] = put_entry(@, paid1)]
                  st2 == draw(st1)
                  st3 == record_transaction(st2, username, "Loan Payment", amount,
                                            st2.uuid, <<"Loan ID", loan_id>>)
                  st4 == [st3 EXCEPT !.loans[username] = put_entry(@, paid2)]
              IN  Returned(save_data(st4), TRUE, "Payment applied", 0)

\* ----------------------------------------------------- create_fixed_deposit
\* The maturity amount is computed in Python floats, IEEE 754 binary64, whose
\* sums and products are rounded to 53 bits. A float is [m, e], the value
\* m * 2^e, with m a natural number held as its digits in base Limb, the least
\* significant first and the most significant not 0.
LimbBits == 13
Limb == 8192
MantissaBits == 53
GuardBits == 80

RECURSIVE pow2(_)
pow2(k) == IF k = 0 THEN 1 ELSE 2 * pow2(k - 1)

RECURSIVE trim(_)
trim(a) == IF a # <<>> /\ a[Len(a)] = 0 THEN trim(SubSeq(a, 1, Len(a) - 1)) ELSE a

\* the digits of the number whose digits in base Limb are a, each of which may
\* exceed Limb, plus c
RECURSIVE carry(_, _)
carry(a, c) ==
    IF a = <<>>
    THEN IF c = 0 THEN <<>> ELSE <<c % Limb>> \o carry(<<>>, c \div Limb)
    ELSE <<(a[1] + c) % Limb>> \o carry(Tail(a), (a[1] + c) \div Limb)

big(n) == carry(<<>>, n)

RECURSIVE to_int(_)
to_int(a) == IF a = <<>> THEN 0 ELSE a[1] + Limb * to_int(Tail(a))

digit(a, i) == IF i \in 1..Len(a) THEN a[i] ELSE 0

big_add(a, b) ==
    carry([i \in 1..(IF Len(a) > Len(b) THEN Len(a) ELSE Len(b)) |-> digit(a, i) + digit(b, i)], 0)

\* the sum of a[i] * b[k + 1 - i] from i on
RECURSIVE convolution(_, _, _, _)
convolution(a, b, k, i) ==
    IF i > Len(a) THEN 0 ELSE a[i] * digit(b, k + 1 - i) + convolution(a, b, k, i + 1)

big_mul(a, b) ==
    trim(carry([k \in 1..(Len(a) + Len(b)) |-> convolution(a, b, k, 1)], 0))

\* a * 2^k
shift_left(a, k) ==
    trim([i \in 1..(k \div LimbBits) |-> 0]
         \o carry([i \in 1..Len(a) |-> a[i] * pow2(k % LimbBits)], 0))

\* a \div 2^k
shift_right(a, k) ==
    LET b == SubSeq(a, k \div LimbBits + 1, Len(a))
        p == pow2(k % LimbBits)
    IN  trim([i \in 1..Len(b) |-> b[i] \div p + (digit(b, i + 1) % p) * (Limb \div p)])

\* a is not a multiple of 2^k
inexact(a, k) == shift_left(shift_right(a, k), k) # a

\* the quotient and the remainder of a by d
RECURSIVE big_divmod(_, _)
big_divmod(a, d) ==
    IF a = <<>>
    THEN [q |-> <<>>, r |-> 0]
    ELSE LET high == big_divmod(Tail(a), d)
             n == high.r * Limb + a[1]
         IN  [q |-> <<n \div d>> \o high.q, r |-> n % d]

\* the number of bits of a
bit_length(a) ==
    IF a = <<>> THEN 0
    ELSE LimbBits * (Len(a) - 1)
         + (CHOOSE n \in 1..LimbBits : pow2(n - 1) <= a[Len(a)] /\ a[Len(a)] < pow2(n))

\* a \div 2^k rounded to the nearest integer, to the even one of two
round_shift(a, k) ==
    IF k <= 0 THEN shift_left(a, -k)
    ELSE LET t == shift_right(a, k - 1)
             q == shift_right(t, 1)
             up == digit(t, 1) % 2 = 1 /\ (inexact(a, k - 1) \/ digit(q, 1) % 2 = 1)
         IN  IF up THEN big_add(q, big(1)) ELSE q

\* the float nearest to m * 2^e, the one with the even mantissa of two
float(m, e) ==
    LET k == bit_length(m) - MantissaBits
    IN  IF k <= 0 THEN [m |-> m, e |-> e] ELSE [m |-> round_shift(m, k), e |-> e + k]

float_of(n) == [m |-> big(n), e |-> 0]

\* x * y and x + y of two floats
float_mul(x, y) == float(big_mul(x.m, y.m), x.e + y.e)

float_add(x, y) ==
    LET e == IF x.e < y.e THEN x.e ELSE y.e
    IN  float(big_add(shift_left(x.m, x.e - e), shift_left(y.m, y.e - e)), e)

\* n / d of two integers, and the literal n/d in decimal: the float nearest to
\* the quotient. The quotient is taken to GuardBits binary places, with one more
\* that tells whether anything is left.
float_div(n, d) ==
    LET qr == big_divmod(shift_left(big(n), GuardBits), d)
        q == trim(qr.q)
    IN  IF qr.r = 0 THEN float(q, -GuardBits)
        ELSE float(big_add(shift_left(q, 1), big(1)), -GuardBits - 1)

\* round(x) of a float x
round_float(x) == to_int(round_shift(x.m, -x.e))

\* FIXED_DEPOSIT_INTEREST = 0.07
FIXED_DEPOSIT_INTEREST == float_div(FIXED_DEPOSIT_RATE_PCT, 100)

\* round(principal * (1 + FIXED_DEPOSIT_INTEREST * (months / 12)))
calculate_maturity_amount(principal, months) ==
    round_float(float_mul(float_of(principal),
                          float_add(float_of(1),
                                    float_mul(FIXED_DEPOSIT_INTEREST, float_div(months, 12)))))

create_fixed_deposit(st, username, amount, duration_months) ==
    IF amount <= 0
    THEN Returned(st, FALSE, "Amount must be positive", 0)
    ELSE IF duration_months <= 0
    THEN Returned(st, FALSE, "Duration must be positive", 0)
    ELSE IF amount > st.accounts[username].balance
    THEN Returned(st, FALSE, "Insufficient funds for fixed deposit", 0)
    ELSE LET st1 == draw(st)
             fd_id == st1.uuid
             fd == [id |-> fd_id,
                    principal |-> amount,
                    duration_months |-> duration_months,
                    interest_rate |-> FIXED_DEPOSIT_RATE_PCT,
                    maturity_amount |-> calculate_maturity_amount(amount, duration_months),
                    start_date |-> strftime(now),
                    maturity_date |-> strftime(now + timedelta_days(FD_MONTH_DAYS * duration_months)),
                    status |-> "active"]
             st2 == [st1 EXCEPT !.fixed_deposits =
                        put(@, username, put_entry(entries_of(@, username), fd))]
             st3 == draw(add_balance(st2, username, -amount))
             st4 == record_transaction(st3, username, "Fixed Deposit Creation", amount,
                                       st3.uuid, <<"FD ID", fd_id>>)
         IN  Returned(save_data(st4), TRUE, "Fixed deposit created successfully!", fd_id)

\* ------------------------------------------------------ close_fixed_deposit
\* close_fixed_deposit as it would be if it failed at the maturity date itself
close_fixed_deposit_after(st, username, fd_id) ==
    IF username \notin DOMAIN st.fixed_deposits \/ fd_id \notin ids_of(st.fixed_deposits[username])
    THEN Returned(st, FALSE, "Fixed deposit not found", 0)
    ELSE LET fd == entry(st.fixed_deposits[username], fd_id)
         IN
         IF fd.status # "active"
         THEN Returned(st, FALSE, "Fixed deposit is not active", 0)
         ELSE IF now <= strptime(fd.maturity_date)
         THEN Returned(st, FALSE, "Fixed deposit has not matured yet", 0)
         ELSE LET closed == [closed_date |-> strftime(now)] @@ [fd EXCEPT !.status = "closed"]
                  st1 == draw(add_balance(st, username, fd.maturity_amount))
                  st2 == record_transaction(st1, username, "Fixed Deposit Maturity",
                                            fd.maturity_amount, st1.uuid, <<"FD ID", fd_id>>)
                  st3 == [st2 EXCEPT !.fixed_deposits[username] = put_entry(@, closed)]
              IN  Returned(save_data(st3), TRUE, "Fixed deposit closed", 0)

close_fixed_deposit(st, username, fd_id) ==
    IF username \notin DOMAIN st.fixed_deposits \/ fd_id \notin ids_of(st.fixed_deposits[username])
    THEN Returned(st, FALSE, "Fixed deposit not found", 0)
    ELSE LET fd == entry(st.fixed_deposits[username], fd_id)
         IN
         IF fd.status # "active"
         THEN Returned(st, FALSE, "Fixed deposit is not active", 0)
         ELSE IF now < strptime(fd.maturity_date)
         THEN Returned(st, FALSE, "Fixed deposit has not matured yet", 0)
         ELSE LET closed == [closed_date |-> strftime(now)] @@ [fd EXCEPT !.status = "closed"]
                  st1 == draw(add_balance(st, username, fd.maturity_amount))
                  st2 == record_transaction(st1, username, "Fixed Deposit Maturity",
                                            fd.maturity_amount, st1.uuid, <<"FD ID", fd_id>>)
                  st3 == [st2 EXCEPT !.fixed_deposits[username] = put_entry(@, closed)]
              IN  Returned(save_data(st3), TRUE, "Fixed deposit closed", 0)

\* ------------------------------------------------------------ the program
\* the store held in st.session_state
Store ==
    [accounts |-> accounts, transactions |-> transactions, transfer_data |-> transfer_data,
     loans |-> loans, fixed_deposits |-> fixed_deposits, uuid |-> uuid,
     failed_attempts |-> failed_attempts, authenticated |-> authenticated,
     current_user |-> current_user, login_time |-> login_time,
     file |-> file, written |-> <<>>]

\* the call op(args) made, r being what it leaves and returns, with at most
\* limit uuid4() values drawn so far: the store becomes the program's
Call(op, args, r, limit) ==
    /\ failures < MaxFailures
    /\ r.st.uuid <= limit
    /\ accounts' = r.st.accounts
    /\ transactions' = r.st.transactions
    /\ transfer_data' = r.st.transfer_data
    /\ loans' = r.st.loans
    /\ fixed_deposits' = r.st.fixed_deposits
    /\ uuid' = r.st.uuid
    /\ failed_attempts' = r.st.failed_attempts
    /\ authenticated' = r.st.authenticated
    /\ current_user' = r.st.current_user
    /\ login_time' = r.st.login_time
    /\ file' = r.st.file
    /\ ret' = [op |-> op, args |-> args, ok |-> r.ok, msg |-> r.msg, val |-> r.val,
               written |-> r.st.written]
    /\ failures' = IF r.ok THEN failures ELSE failures + 1
    /\ UNCHANGED now

\* main() at start-up: init_session_state(), then load_data() reads what earlier
\* runs saved; here, the account of alice, opened with StartBalance at time 0.
Loaded ==
    create_account(EmptyStore, "alice", "Pw1", "a@x", StartBalance, "id1").st

\* the same with the account of bob, opened with nothing
LoadedTwo ==
    create_account(Loaded, "bob", "Pw1", "b@x", 0, "id2").st

\* the program started on the saved store st
Start(st) ==
    /\ now = 0
    /\ accounts = load_data(st).accounts
    /\ transactions = load_data(st).transactions
    /\ transfer_data = <<>>
    /\ loans = load_data(st).loans
    /\ fixed_deposits = load_data(st).fixed_deposits
    /\ uuid = st.uuid
    /\ failed_attempts = load_data(st).failed_attempts
    /\ authenticated = st.authenticated
    /\ current_user = st.current_user
    /\ login_time = st.login_time
    /\ file = st.file
    /\ transfer_confirmation = FALSE
    /\ transfer_id = 0
    /\ ret = [op |-> "load_data", args |-> <<>>, ok |-> TRUE, msg |-> "", val |-> 0,
              written |-> <<>>]
    /\ failures = 0
    /\ confirmed = {}
    /\ cancelled = {}
    /\ failed_at = <<>>

Init == Start(Loaded)

InitTwo == Start(LoadedTwo)

Existing == DOMAIN accounts
Ids == 1 .. MaxUuid

CreateAccount(names, limit) ==
    \E u \in names, p \in Passwords, e \in Emails, d \in Amounts, a \in AccountIds :
        Call("create_account", <<u, p, e, d>>, create_account(Store, u, p, e, d, a), limit) /\ UNCHANGED <<sessVars, histVars>>

Deposit(limit) ==
    \E u \in Existing, a \in Amounts :
        Call("deposit", <<u, a>>, deposit(Store, u, a), limit) /\ UNCHANGED <<sessVars, histVars>>

Withdraw(limit) ==
    \E u \in Existing, a \in Amounts :
        Call("withdraw", <<u, a>>, withdraw(Store, u, a), limit) /\ UNCHANGED <<sessVars, histVars>>

InitiateTransfer(names, limit) ==
    \E s \in Existing, r \in names, a \in AccountIds, m \in Amounts :
        Call("initiate_transfer", <<s, r, a, m>>,
             initiate_transfer(Store, s, r, a, m, None), limit) /\ UNCHANGED <<sessVars, histVars>>

ConfirmTransfer(limit) ==
    \E t \in Ids :
        /\ Call("confirm_transfer", <<t>>, confirm_transfer(Store, t), limit)
        /\ confirmed' = IF ret'.ok THEN confirmed \cup {t} ELSE confirmed
        /\ UNCHANGED <<sessVars, cancelled, failed_at>>

ApplyForLoan(limit) ==
    \E u \in Existing, a \in Amounts, m \in Durations :
        Call("apply_for_loan", <<u, a, m>>, apply_for_loan(Store, u, a, m), limit) /\ UNCHANGED <<sessVars, histVars>>

MakeLoanPayment(limit) ==
    \E u \in Existing, l \in Ids, a \in Amounts :
        Call("make_loan_payment", <<u, l, a>>, make_loan_payment(Store, u, l, a), limit) /\ UNCHANGED <<sessVars, histVars>>

CreateFixedDeposit(limit) ==
    \E u \in Existing, a \in Amounts, m \in Durations :
        Call("create_fixed_deposit", <<u, a, m>>, create_fixed_deposit(Store, u, a, m), limit) /\ UNCHANGED <<sessVars, histVars>>

CloseFixedDeposit(limit) ==
    \E u \in Existing, f \in Ids :
        Call("close_fixed_deposit", <<u, f>>, close_fixed_deposit(Store, u, f), limit) /\ UNCHANGED <<sessVars, histVars>>

\* the clock moves on by 90 days
AdvanceTime ==
    /\ failures < MaxFailures
    /\ now + timedelta_days(MIN_ACCOUNT_AGE_DAYS) <= MaxJumps * timedelta_days(MIN_ACCOUNT_AGE_DAYS)
    /\ now' = now + timedelta_days(MIN_ACCOUNT_AGE_DAYS)
    /\ ret' = [op |-> "clock", args |-> <<>>, ok |-> TRUE, msg |-> "", val |-> 0, written |-> <<>>]
    /\ UNCHANGED <<storeVars, sessVars, failures, histVars>>

\* ------------------------------------------ dashboard: the Transfer panel
\* the amounts the form's number_input(min_value=1, step=1) lets through
FormAmounts == 1 .. MaxAmount

\* "Initiate Transfer", submitted in the form the panel shows while no
\* confirmation is awaited; sender is st.session_state.current_user
TransferInitSubmit ==
    /\ ~transfer_confirmation
    /\ \E s \in Existing, r \in TwoNames, a \in AccountIds, m \in FormAmounts :
          Call("initiate_transfer", <<s, r, a, m>>,
               initiate_transfer(Store, s, r, a, m, None), MaxDraws)
    /\ IF ret'.ok
       THEN /\ transfer_id' = ret'.val
            /\ transfer_confirmation' = TRUE
       ELSE UNCHANGED sessVars
    /\ UNCHANGED histVars

\* the "Confirm Transfer" button of the confirmation view
TransferConfirmButton ==
    /\ transfer_confirmation
    /\ Call("confirm_transfer", <<transfer_id>>, confirm_transfer(Store, transfer_id), MaxDraws)
    /\ transfer_confirmation' = IF ret'.ok THEN FALSE ELSE transfer_confirmation
    /\ confirmed' = IF ret'.ok THEN confirmed \cup {transfer_id} ELSE confirmed
    /\ UNCHANGED <<transfer_id, cancelled, failed_at>>

\* the "Cancel" button of the confirmation view
TransferCancelButton ==
    /\ failures < MaxFailures
    /\ transfer_confirmation
    /\ transfer_confirmation' = FALSE
    /\ cancelled' = cancelled \cup {transfer_id}
    /\ ret' = [op |-> "cancel", args |-> <<transfer_id>>, ok |-> TRUE, msg |-> "", val |-> 0, written |-> <<>>]
    /\ UNCHANGED <<storeVars, transfer_id, now, failures, confirmed, failed_at>>

\* ------------------------------------------------------- specifications
\* the accounts and the two-phase transfer
Next ==
    \/ CreateAccount(TwoNames, MaxUuid)
    \/ Deposit(MaxUuid)
    \/ Withdraw(MaxUuid)
    \/ InitiateTransfer(TwoNames, MaxUuid)
    \/ ConfirmTransfer(MaxUuid)

Spec == Init /\ [][Next]_vars

\* all the operations of the ledger, and the clock
NextAll ==
    \/ CreateAccount(TwoNames, MaxDraws)
    \/ Deposit(MaxDraws)
    \/ Withdraw(MaxDraws)
    \/ InitiateTransfer(TwoNames, MaxDraws)
    \/ ConfirmTransfer(MaxDraws)
    \/ ApplyForLoan(MaxDraws)
    \/ MakeLoanPayment(MaxDraws)
    \/ CreateFixedDeposit(MaxDraws)
    \/ CloseFixedDeposit(MaxDraws)
    \/ AdvanceTime

SpecAll == Init /\ [][NextAll]_vars

\* transfers among three accounts
NextThree ==
    \/ CreateAccount(Usernames, MaxDraws)
    \/ Deposit(MaxDraws)
    \/ Withdraw(MaxDraws)
    \/ InitiateTransfer(Usernames, MaxDraws)
    \/ ConfirmTransfer(MaxDraws)

SpecThree == InitTwo /\ [][NextThree]_vars

\* the Transfer panel of the dashboard, with the calls made beside it
NextPanel ==
    \/ CreateAccount(TwoNames, MaxDraws)
    \/ Withdraw(MaxDraws)
    \/ ConfirmTransfer(MaxDraws)
    \/ TransferInitSubmit
    \/ TransferConfirmButton
    \/ TransferCancelButton

SpecPanel == Init /\ [][NextPanel]_vars

\* create_account called with any integer as initial deposit, beside deposit
\* and withdraw
SignedAmounts == (0 - MaxAmount) .. MaxAmount

CreateAccountSigned(names, limit) ==
    \E u \in names, p \in Passwords, e \in Emails, d \in SignedAmounts, a \in AccountIds :
        Call("create_account", <<u, p, e, d>>, create_account(Store, u, p, e, d, a), limit) /\ UNCHANGED <<sessVars, histVars>>

NextSigned ==
    \/ CreateAccountSigned(Usernames, MaxDraws)
    \/ Deposit(MaxDraws)
    \/ Withdraw(MaxDraws)

SpecSigned == Init /\ [][NextSigned]_vars

\* every operation that moves funds, called with any integer as amount
DepositSigned(limit) ==
    \E u \in Existing, a \in SignedAmounts :
        Call("deposit", <<u, a>>, deposit(Store, u, a), limit)
        /\ UNCHANGED <<sessVars, histVars>>

WithdrawSigned(limit) ==
    \E u \in Existing, a \in SignedAmounts :
        Call("withdraw", <<u, a>>, withdraw(Store, u, a), limit)
        /\ UNCHANGED <<sessVars, histVars>>

InitiateTransferSigned(limit) ==
    \E s \in Existing, r \in Existing, m \in SignedAmounts :
        Call("initiate_transfer", <<s, r, accounts[r].account_id, m>>,
             initiate_transfer(Store, s, r, accounts[r].account_id, m, None), limit)
        /\ UNCHANGED <<sessVars, histVars>>

ApplyForLoanSigned(limit) ==
    \E u \in Existing, a \in SignedAmounts, m \in Durations :
        Call("apply_for_loan", <<u, a, m>>, apply_for_loan(Store, u, a, m), limit)
        /\ UNCHANGED <<sessVars, histVars>>

MakeLoanPaymentSigned(limit) ==
    \E u \in Existing, l \in Ids, a \in SignedAmounts :
        Call("make_loan_payment", <<u, l, a>>, make_loan_payment(Store, u, l, a), limit)
        /\ UNCHANGED <<sessVars, histVars>>

CreateFixedDepositSigned(limit) ==
    \E u \in Existing, a \in SignedAmounts, m \in Durations :
        Call("create_fixed_deposit", <<u, a, m>>, create_fixed_deposit(Store, u, a, m), limit)
        /\ UNCHANGED <<sessVars, histVars>>

NextMoves ==
    \/ DepositSigned(MaxMoveDraws)
    \/ WithdrawSigned(MaxMoveDraws)
    \/ InitiateTransferSigned(MaxMoveDraws)
    \/ ConfirmTransfer(MaxMoveDraws)
    \/ ApplyForLoanSigned(MaxMoveDraws)
    \/ MakeLoanPaymentSigned(MaxMoveDraws)
    \/ CreateFixedDepositSigned(MaxMoveDraws)
    \/ CloseFixedDeposit(MaxMoveDraws)
    \/ AdvanceTime

SpecMoves == InitTwo /\ [][NextMoves]_vars

\* ------------------------------------------------ login and the session
WrongPassword == "Pw2"

\* the call op(args) made, r being what it leaves and returns, however many
\* calls have failed before
Enter(op, args, r) ==
    /\ accounts' = r.st.accounts
    /\ transactions' = r.st.transactions
    /\ transfer_data' = r.st.transfer_data
    /\ loans' = r.st.loans
    /\ fixed_deposits' = r.st.fixed_deposits
    /\ uuid' = r.st.uuid
    /\ failed_attempts' = r.st.failed_attempts
    /\ authenticated' = r.st.authenticated
    /\ current_user' = r.st.current_user
    /\ login_time' = r.st.login_time
    /\ file' = r.st.file
    /\ ret' = [op |-> op, args |-> args, ok |-> r.ok, msg |-> r.msg, val |-> r.val,
               written |-> r.st.written]
    /\ UNCHANGED <<now, failures, sessVars, confirmed, cancelled>>

\* the login form: authenticate(username, password)
Authenticate ==
    \E u \in Usernames, p \in Passwords \cup {WrongPassword} :
        LET r == authenticate(Store, u, p)
        IN  /\ \A user \in DOMAIN r.st.failed_attempts :
                   r.st.failed_attempts[user].count <= MaxCount
            /\ Enter("authenticate", <<u, p>>, r)
            /\ failed_at' = IF r.st.failed_attempts # Store.failed_attempts /\ ~r.ok
                            THEN put(failed_at, u, now)
                            ELSE failed_at

\* dashboard(): if check_session_timeout(): st.rerun()
CheckSessionTimeout ==
    /\ Enter("check_session_timeout", <<>>, check_session_timeout(Store))
    /\ UNCHANGED failed_at

\* the lapses of time between two calls
Delays ==
    {1, SESSION_TIMEOUT * TicksPerSecond, LOCK_SECONDS * TicksPerSecond - 1, timedelta_days(1)}

\* time passes; a lapse of one tick leaves a whole second
Elapse ==
    \E d \in Delays :
        /\ d = 1 => now % TicksPerSecond = 0
        /\ (now + d) % timedelta_days(1) <= MaxSeconds * TicksPerSecond
        /\ now + d <= timedelta_days(MaxDays) + MaxSeconds * TicksPerSecond
        /\ now' = now + d
        /\ ret' = [op |-> "clock", args |-> <<d>>, ok |-> TRUE, msg |-> "", val |-> 0, written |-> <<>>]
        /\ UNCHANGED <<storeVars, sessVars, failures, histVars>>

NextLogin ==
    \/ Authenticate
    \/ CheckSessionTimeout
    \/ Elapse

SpecLogin == InitTwo /\ [][NextLogin]_vars

\* ------------------------------------------- every operation that saves
\* the login form of the first account, as far as MaxWrong failed attempts
Login ==
    \E u \in {"alice"}, p \in Passwords \cup {WrongPassword} :
        LET r == authenticate(Store, u, p)
        IN  /\ failures < MaxFailures
            /\ \A user \in DOMAIN r.st.failed_attempts :
                   r.st.failed_attempts[user].count <= MaxWrong
            /\ Enter("authenticate", <<u, p>>, r)
            /\ UNCHANGED failed_at

NextSaved ==
    \/ CreateAccount(TwoNames, MaxSavedDraws)
    \/ Deposit(MaxSavedDraws)
    \/ Withdraw(MaxSavedDraws)
    \/ InitiateTransfer(TwoNames, MaxSavedDraws)
    \/ ConfirmTransfer(MaxSavedDraws)
    \/ ApplyForLoan(MaxSavedDraws)
    \/ MakeLoanPayment(MaxSavedDraws)
    \/ CreateFixedDeposit(MaxSavedDraws)
    \/ CloseFixedDeposit(MaxSavedDraws)
    \/ AdvanceTime
    \/ Login

SpecSaved == Init /\ [][NextSaved]_vars

\* ------------------------------------- two sessions on the one DATA_FILE
\* what load_data() gives a session from DATA_FILE as it is
loaded == load_data([EmptyStore EXCEPT !.file = file])

SharedAmounts == 1 .. MaxShared

\* main() at the start of a request of this session: load_data()
Rerun ==
    /\ failures < MaxFailures
    /\ accounts' = loaded.accounts
    /\ transactions' = loaded.transactions
    /\ loans' = loaded.loans
    /\ fixed_deposits' = loaded.fixed_deposits
    /\ failed_attempts' = loaded.failed_attempts
    /\ ret' = [op |-> "load_data", args |-> <<>>, ok |-> TRUE, msg |-> "", val |-> 0,
               written |-> <<>>]
    /\ UNCHANGED <<transfer_data, uuid, authenticated, current_user, login_time, file,
                   now, failures, sessVars, histVars>>

\* the request of this session goes on, from what it loaded, to its operation
SharedDeposit ==
    /\ ret.op = "load_data"
    /\ \E u \in Existing, a \in SharedAmounts :
           /\ Call("deposit", <<u, a>>, deposit(Store, u, a), MaxSharedDraws)
           /\ UNCHANGED <<sessVars, histVars>>

SharedWithdraw ==
    /\ ret.op = "load_data"
    /\ \E u \in Existing, a \in SharedAmounts :
           /\ Call("withdraw", <<u, a>>, withdraw(Store, u, a), MaxSharedDraws)
           /\ UNCHANGED <<sessVars, histVars>>

\* a whole request of another session, which has its own session_state:
\* load_data(), a deposit or a withdrawal that succeeds, and its save_data()
OtherSession ==
    \E op \in {"deposit", "withdraw"}, u \in DOMAIN loaded.accounts, a \in SharedAmounts :
        LET theirs == [loaded EXCEPT !.uuid = uuid]
            r == IF op = "deposit" THEN deposit(theirs, u, a) ELSE withdraw(theirs, u, a)
        IN  /\ failures < MaxFailures
            /\ r.ok
            /\ r.st.uuid <= MaxSharedDraws
            /\ file' = r.st.file
            /\ uuid' = r.st.uuid
            /\ UNCHANGED <<accounts, transactions, transfer_data, loans, fixed_deposits,
                           failed_attempts, authenticated, current_user, login_time,
                           now, ret, failures, sessVars, histVars>>

NextShared ==
    \/ Rerun
    \/ SharedDeposit
    \/ SharedWithdraw
    \/ OtherSession

SpecShared == Init /\ [][NextShared]_vars

\* ---------------------------------------- main(): login_section, dashboard
\* the store and the result of the call op(args) become the program's
Becomes(op, args, r) ==
    /\ r.st.uuid <= MaxDraws
    /\ accounts' = r.st.accounts
    /\ transactions' = r.st.transactions
    /\ transfer_data' = r.st.transfer_data
    /\ loans' = r.st.loans
    /\ fixed_deposits' = r.st.fixed_deposits
    /\ uuid' = r.st.uuid
    /\ failed_attempts' = r.st.failed_attempts
    /\ authenticated' = r.st.authenticated
    /\ current_user' = r.st.current_user
    /\ login_time' = r.st.login_time
    /\ file' = r.st.file
    /\ ret' = [op |-> op, args |-> args, ok |-> r.ok, msg |-> r.msg, val |-> r.val,
               written |-> r.st.written]
    /\ UNCHANGED <<now, failures>>

\* a rerun of main() with the session authenticated: dashboard() ends the
\* session when check_session_timeout() says so, and else goes on to the handler
Dashboard(handler) ==
    /\ authenticated
    /\ IF check_session_timeout(Store).val = 1
       THEN /\ Becomes("check_session_timeout", <<>>, check_session_timeout(Store))
            /\ UNCHANGED <<sessVars, histVars>>
       ELSE handler

\* a rerun of main() with the session not authenticated: the login form
LoginSubmit ==
    /\ ~authenticated
    /\ \E u \in TwoNames, p \in Passwords \cup {WrongPassword} :
          LET r == authenticate(Store, u, p)
          IN  /\ \A user \in DOMAIN r.st.failed_attempts :
                     r.st.failed_attempts[user].count <= MaxWrong
              /\ Becomes("authenticate", <<u, p>>, r)
              /\ failed_at' = IF r.st.failed_attempts # Store.failed_attempts /\ ~r.ok
                              THEN put(failed_at, u, now)
                              ELSE failed_at
    /\ UNCHANGED <<sessVars, confirmed, cancelled>>

DashDeposit ==
    Dashboard(\E a \in FormAmounts :
        /\ Becomes("deposit", <<current_user, a>>, deposit(Store, current_user, a))
        /\ UNCHANGED <<sessVars, histVars>>)

DashWithdraw ==
    Dashboard(\E a \in FormAmounts :
        /\ Becomes("withdraw", <<current_user, a>>, withdraw(Store, current_user, a))
        /\ UNCHANGED <<sessVars, histVars>>)

DashCreateFixedDeposit ==
    Dashboard(\E a \in FormAmounts :
        /\ Becomes("create_fixed_deposit", <<current_user, a, 1>>,
                   create_fixed_deposit(Store, current_user, a, 1))
        /\ UNCHANGED <<sessVars, histVars>>)

DashApplyForLoan ==
    Dashboard(\E a \in FormAmounts :
        /\ Becomes("apply_for_loan", <<current_user, a, 1>>,
                   apply_for_loan(Store, current_user, a, 1))
        /\ UNCHANGED <<sessVars, histVars>>)

DashTransferInit ==
    Dashboard(
        /\ ~transfer_confirmation
        /\ \E r \in TwoNames, a \in AccountIds, m \in FormAmounts :
              Becomes("initiate_transfer", <<current_user, r, a, m>>,
                      initiate_transfer(Store, current_user, r, a, m, None))
        /\ IF ret'.ok
           THEN /\ transfer_id' = ret'.val
                /\ transfer_confirmation' = TRUE
           ELSE UNCHANGED sessVars
        /\ UNCHANGED histVars)

\* the confirmation view reads transfer_data[transfer_id] before it shows the button
DashTransferConfirm ==
    Dashboard(
        /\ transfer_confirmation
        /\ transfer_id \in DOMAIN transfer_data
        /\ Becomes("confirm_transfer", <<transfer_id>>, confirm_transfer(Store, transfer_id))
        /\ transfer_confirmation' = IF ret'.ok THEN FALSE ELSE transfer_confirmation
        /\ confirmed' = IF ret'.ok THEN confirmed \cup {transfer_id} ELSE confirmed
        /\ UNCHANGED <<transfer_id, cancelled, failed_at>>)

DashTransferCancel ==
    Dashboard(
        /\ transfer_confirmation
        /\ transfer_id \in DOMAIN transfer_data
        /\ transfer_confirmation' = FALSE
        /\ cancelled' = cancelled \cup {transfer_id}
        /\ ret' = [op |-> "cancel", args |-> <<transfer_id>>, ok |-> TRUE, msg |-> "", val |-> 0, written |-> <<>>]
        /\ UNCHANGED <<storeVars, transfer_id, now, failures, confirmed, failed_at>>)

\* the "Logout" button
DashLogout ==
    Dashboard(
        /\ authenticated' = FALSE
        /\ current_user' = None
        /\ transfer_confirmation' = FALSE
        /\ ret' = [op |-> "logout", args |-> <<>>, ok |-> TRUE, msg |-> "", val |-> 0, written |-> <<>>]
        /\ UNCHANGED <<accounts, transactions, transfer_data, loans, fixed_deposits, uuid,
                       failed_attempts, login_time, file, transfer_id, now, failures,
                       histVars>>)

\* nothing is done for one tick more than SESSION_TIMEOUT
Idle ==
    /\ now + SESSION_TIMEOUT * TicksPerSecond + 1
          <= MaxIdles * (SESSION_TIMEOUT * TicksPerSecond + 1)
    /\ now' = now + SESSION_TIMEOUT * TicksPerSecond + 1
    /\ ret' = [op |-> "clock", args |-> <<>>, ok |-> TRUE, msg |-> "", val |-> 0, written |-> <<>>]
    /\ UNCHANGED <<storeVars, sessVars, failures, histVars>>

NextMain ==
    \/ LoginSubmit
    \/ DashDeposit
    \/ DashWithdraw
    \/ DashCreateFixedDeposit
    \/ DashApplyForLoan
    \/ DashTransferInit
    \/ DashTransferConfirm
    \/ DashTransferCancel
    \/ DashLogout
    \/ Idle

SpecMain == InitTwo /\ [][NextMain]_vars

\* ----------------------------------------------------------------- loans
LoanAmounts == {0, 1, MaxLoan}
LoanDurations == 0 .. MaxMonths
LoanIds == 1 .. MaxLoanDraws

\* the payments tried: nothing, 1, and the monthly payments of the loans, which
\* the payment form proposes
LoanPayments ==
    {0, 1} \cup {calculate_monthly_payment(a, m) : a \in LoanAmounts \ {0}, m \in LoanDurations \ {0}}

LoanApply ==
    \E a \in LoanAmounts, m \in LoanDurations :
        Call("apply_for_loan", <<"alice", a, m>>, apply_for_loan(Store, "alice", a, m), MaxLoanDraws)
        /\ UNCHANGED <<sessVars, histVars>>

LoanPay ==
    \E l \in LoanIds, a \in LoanPayments :
        Call("make_loan_payment", <<"alice", l, a>>, make_loan_payment(Store, "alice", l, a), MaxLoanDraws)
        /\ UNCHANGED <<sessVars, histVars>>

\* the account is paid into and drawn from, by the same amounts
LoanDeposit ==
    \E a \in LoanPayments :
        Call("deposit", <<"alice", a>>, deposit(Store, "alice", a), MaxLoanDraws)
        /\ UNCHANGED <<sessVars, histVars>>

LoanWithdraw ==
    \E a \in LoanPayments :
        Call("withdraw", <<"alice", a>>, withdraw(Store, "alice", a), MaxLoanDraws)
        /\ UNCHANGED <<sessVars, histVars>>

NextLoan ==
    \/ LoanApply
    \/ LoanPay
    \/ LoanDeposit
    \/ LoanWithdraw
    \/ AdvanceTime

SpecLoan == Init /\ [][NextLoan]_vars

\* -------------------------------------------------------- fixed deposits
\* the program started on the account of alice, opened with MaxPrincipal
InitDeposit ==
    Start(create_account(EmptyStore, "alice", "Pw1", "a@x", MaxPrincipal, "id1").st)

DepositAmounts == {0, 1, MaxPrincipal}
DepositTerms == {0, 1, MaxTerm}
DepositIds == 1 .. MaxDepositDraws

DepositCreate ==
    \E a \in DepositAmounts, m \in DepositTerms :
        Call("create_fixed_deposit", <<"alice", a, m>>,
             create_fixed_deposit(Store, "alice", a, m), MaxDepositDraws)
        /\ UNCHANGED <<sessVars, histVars>>

DepositClose ==
    \E f \in DepositIds :
        Call("close_fixed_deposit", <<"alice", f>>,
             close_fixed_deposit(Store, "alice", f), MaxDepositDraws)
        /\ UNCHANGED <<sessVars, histVars>>

\* the lapses of time between two calls: one tick, and a term less one tick
DepositDelays ==
    {1} \cup {timedelta_days(FD_MONTH_DAYS * m) - 1 : m \in DepositTerms \ {0}}

\* time passes; a lapse of one tick leaves a whole second
DepositElapse ==
    \E d \in DepositDelays :
        /\ failures < MaxFailures
        /\ d = 1 => now % TicksPerSecond = 0
        /\ now + d <= timedelta_days(FD_MONTH_DAYS * MaxTerm) + 1
        /\ now' = now + d
        /\ ret' = [op |-> "clock", args |-> <<d>>, ok |-> TRUE, msg |-> "", val |-> 0, written |-> <<>>]
        /\ UNCHANGED <<storeVars, sessVars, failures, histVars>>

NextDeposit ==
    \/ DepositCreate
    \/ DepositClose
    \/ DepositElapse

SpecDeposit == InitDeposit /\ [][NextDeposit]_vars

\* the last record of username's history
last_record(username) == transactions[username][Len(transactions[username])]

Operations ==
    {"create_account", "deposit", "withdraw", "initiate_transfer", "confirm_transfer",
     "apply_for_loan", "make_loan_payment", "create_fixed_deposit", "close_fixed_deposit"}

\* C1: in every reachable state every account's balance is >= 0.
C1_BalanceNeverNegative ==
    \A u \in DOMAIN accounts : accounts[u].balance >= 0

\* C2: a successful confirm_transfer lowers the sender's balance by the pending
\* amount, raises the recipient's by the same amount, changes no other account's
\* balance, and appends one Transfer Out to the sender's history and one
\* Transfer In to the recipient's, both under one transaction id.
C2_ConfirmMovesFunds ==
    [][\A t \in Ids :
        (ret'.op = "confirm_transfer" /\ ret'.ok /\ ret'.args = <<t>>) =>
            LET d == transfer_data[t]
                before_out == entries_of(transactions, d.sender)
                before_in == entries_of(transactions, d.recipient)
                out == transactions'[d.sender]
                inn == transactions'[d.recipient]
            IN  /\ accounts'[d.sender].balance = accounts[d.sender].balance - d.amount
                /\ accounts'[d.recipient].balance = accounts[d.recipient].balance + d.amount
                /\ DOMAIN accounts' = DOMAIN accounts
                /\ \A u \in DOMAIN accounts \ {d.sender, d.recipient} :
                       accounts'[u].balance = accounts[u].balance
                /\ out = Append(before_out, out[Len(out)])
                /\ inn = Append(before_in, inn[Len(inn)])
                /\ out[Len(out)].type = "Transfer Out"
                /\ inn[Len(inn)].type = "Transfer In"
                /\ out[Len(out)].amount = d.amount
                /\ inn[Len(inn)].amount = d.amount
                /\ out[Len(out)].id = inn[Len(inn)].id
                /\ \A u \in DOMAIN accounts \ {d.sender, d.recipient} :
                       entries_of(transactions', u) = entries_of(transactions, u)
      ]_vars

\* a transfer of a positive amount has been confirmed while a third account exists
C2_Witness ==
    /\ ret.op = "confirm_transfer" /\ ret.ok
    /\ Cardinality(DOMAIN accounts) = 3
    /\ \E u \in DOMAIN transactions :
          /\ last_record(u).type = "Transfer Out"
          /\ last_record(u).amount > 0
          /\ last_record(u).id = ret.val

\* C3: once confirm_transfer has succeeded for a transfer id, every later
\* confirm_transfer with that id fails as an invalid request and changes no
\* balance and no history.
C3_ConfirmAtMostOnce ==
    [][(ret'.op = "confirm_transfer" /\ ret'.args[1] \in confirmed) =>
            /\ ~ret'.ok
            /\ ret'.msg = "Invalid transfer request"
            /\ UNCHANGED <<accounts, transactions>>
      ]_vars

\* a transfer id has been confirmed, and confirmed once more in vain
C3_Witness ==
    /\ ret.op = "confirm_transfer" /\ ~ret.ok
    /\ ret.args[1] \in confirmed

\* C4: a successful initiate_transfer adds one pending entry under a transfer id
\* never drawn before and leaves the balances, the histories, the loans and the
\* fixed deposits as they were.
C4_InitiateOnlyStages ==
    [][(ret'.op = "initiate_transfer" /\ ret'.ok) =>
            /\ UNCHANGED <<accounts, transactions, loans, fixed_deposits>>
            /\ ret'.val > uuid
            /\ ret'.val \notin DOMAIN transfer_data \cup confirmed \cup cancelled
            /\ DOMAIN transfer_data' = DOMAIN transfer_data \cup {ret'.val}
            /\ \A t \in DOMAIN transfer_data : transfer_data'[t] = transfer_data[t]
            /\ transfer_data'[ret'.val].sender = ret'.args[1]
            /\ transfer_data'[ret'.val].recipient = ret'.args[2]
            /\ transfer_data'[ret'.val].amount = ret'.args[4]
      ]_vars

\* a transfer of a positive amount has been initiated and is pending
C4_Witness ==
    /\ ret.op = "initiate_transfer" /\ ret.ok
    /\ ret.args[4] > 0
    /\ ret.val \in DOMAIN transfer_data

\* C5: initiate_transfer fails, adding no pending entry, when the recipient has
\* no account, the account id given is not the recipient's, the sender is the
\* recipient, or the amount exceeds the sender's balance; otherwise it succeeds.
C5_InitiateValidation ==
    [][ret'.op = "initiate_transfer" =>
            LET sender == ret'.args[1]
                recipient == ret'.args[2]
                account_id == ret'.args[3]
                amount == ret'.args[4]
                refused == \/ recipient \notin DOMAIN accounts
                           \/ accounts[recipient].account_id # account_id
                           \/ sender = recipient
                           \/ amount > accounts[sender].balance
            IN  /\ ret'.ok <=> ~refused
                /\ refused => UNCHANGED transfer_data
      ]_vars

\* an initiate_transfer of more than the sender has was refused
C5_Witness ==
    /\ ret.op = "initiate_transfer" /\ ~ret.ok
    /\ ret.args[2] \in DOMAIN accounts
    /\ ret.args[1] # ret.args[2]
    /\ ret.args[4] > accounts[ret.args[1]].balance
    /\ ret.msg = "Insufficient funds for transfer"

\* C6: after Cancel the transfer id is no longer pending.
C6_CancelDiscardsEntry ==
    \A t \in cancelled : t \notin DOMAIN transfer_data

\* C7: confirm_transfer succeeds for every pending transfer id, whatever the
\* sender's balance is when it is called.
C7_ConfirmIgnoresBalance ==
    [][(ret'.op = "confirm_transfer" /\ ret'.args[1] \in DOMAIN transfer_data) => ret'.ok]_vars

\* a sender has had two transfers confirmed, each of a positive amount within the
\* balance when it was initiated, that together exceed it
C7_Witness ==
    /\ ret.op = "confirm_transfer" /\ ret.ok
    /\ \E u \in DOMAIN accounts :
          /\ accounts[u].balance < 0
          /\ Cardinality({i \in 1..Len(transactions[u]) :
                             /\ transactions[u][i].type = "Transfer Out"
                             /\ transactions[u][i].amount > 0}) >= 2
          /\ \A i \in 1..Len(transactions[u]) :
                transactions[u][i].type \in {"Account Creation Deposit", "Transfer Out"}

\* C8: a call of one of the nine operations that returns failure leaves the
\* accounts, the histories, the loans, the fixed deposits and the pending
\* transfers as they were.
C8_FailureChangesNothing ==
    [][(ret'.op \in Operations /\ ~ret'.ok) =>
            UNCHANGED <<accounts, transactions, loans, fixed_deposits, transfer_data>>
      ]_vars

\* a fixed deposit was refused closing before its maturity date
C8_Witness ==
    /\ ret.op = "close_fixed_deposit" /\ ~ret.ok
    /\ ret.msg = "Fixed deposit has not matured yet"

\* C9: withdraw of more than the balance fails with "Insufficient funds", changing
\* no balance and no history; withdraw of 0 < amount <= balance lowers the balance
\* by the amount and records one Withdrawal.
C9_WithdrawContract ==
    [][ret'.op = "withdraw" =>
            LET u == ret'.args[1]
                amount == ret'.args[2]
                balance == accounts[u].balance
                history == entries_of(transactions', u)
            IN  /\ amount > balance =>
                       /\ ~ret'.ok
                       /\ ret'.msg = "Insufficient funds"
                       /\ UNCHANGED <<accounts, transactions>>
                /\ (0 < amount /\ amount <= balance) =>
                       /\ ret'.ok
                       /\ accounts'[u].balance = balance - amount
                       /\ history = Append(entries_of(transactions, u), history[Len(history)])
                       /\ history[Len(history)].type = "Withdrawal"
                       /\ history[Len(history)].amount = amount
      ]_vars

\* C10: every record an operation adds carries, as balance_after, the balance its
\* account has once the operation has changed it.
C10_BalanceAfterIsBalance ==
    [][\A u \in DOMAIN transactions' :
          \A i \in 1..Len(transactions'[u]) :
              i > Len(entries_of(transactions, u)) =>
                  transactions'[u][i].balance_after = accounts'[u].balance
      ]_vars

\* a transfer of a positive amount has been confirmed and its credit recorded
C10_Witness ==
    /\ ret.op = "confirm_transfer" /\ ret.ok
    /\ \E u \in DOMAIN transactions :
          /\ last_record(u).type = "Transfer In"
          /\ last_record(u).amount > 0
          /\ last_record(u).id = ret.val
          /\ last_record(u).balance_after = accounts[u].balance

\* C11: no step removes a record of a history or changes one, and a step adds
\* at most one record to each account's history.
C11_HistoriesAppendOnly ==
    [][/\ DOMAIN transactions \subseteq DOMAIN transactions'
       /\ \A u \in DOMAIN transactions' :
             LET before == entries_of(transactions, u)
                 after == transactions'[u]
             IN  /\ Len(before) <= Len(after)
                 /\ Len(after) <= Len(before) + 1
                 /\ SubSeq(after, 1, Len(before)) = before
      ]_vars

\* an account has three records, the newest written by the last call
C11_Witness ==
    /\ ret.ok /\ ret.op \in Operations
    /\ \E u \in DOMAIN transactions :
          /\ Len(transactions[u]) >= 3
          /\ last_record(u).id = uuid

\* C12: create_account for a username that has an account fails as a duplicate
\* username, and for an email some account holds as a duplicate email, both
\* leaving everything as it was; a create_account never touches an existing
\* account, and after it no two accounts hold one email.
C12_NoDuplicateAccounts ==
    [][ret'.op = "create_account" =>
            LET username == ret'.args[1]
                email == ret'.args[3]
                email_taken == \E user \in DOMAIN accounts : accounts[user].email = email
            IN  /\ username \in DOMAIN accounts =>
                       /\ ~ret'.ok
                       /\ ret'.msg = "Username already exists"
                /\ (username \notin DOMAIN accounts /\ email_taken) =>
                       /\ ~ret'.ok
                       /\ ret'.msg = "Email already registered with another account"
                /\ ~ret'.ok =>
                       UNCHANGED <<accounts, transactions, transfer_data, loans, fixed_deposits>>
                /\ \A user \in DOMAIN accounts :
                       user \in DOMAIN accounts' /\ accounts'[user] = accounts[user]
                /\ \A u1, u2 \in DOMAIN accounts' :
                       u1 # u2 => accounts'[u1].email # accounts'[u2].email
      ]_vars

\* a third account was refused for an email an account holds
C12_Witness ==
    /\ ret.op = "create_account" /\ ~ret.ok
    /\ ret.msg = "Email already registered with another account"
    /\ ret.args[1] \notin DOMAIN accounts
    /\ \E user \in DOMAIN accounts : accounts[user].email = ret.args[3]

\* C13: a successful create_account with initial deposit d leaves the new account
\* with balance d, d being >= 0, and with a history of one Account Creation
\* Deposit of amount d and balance_after d when d > 0, and of nothing when d = 0.
C13_CreateAccountDeposit ==
    [][(ret'.op = "create_account" /\ ret'.ok) =>
            LET username == ret'.args[1]
                d == ret'.args[4]
                history == entries_of(transactions', username)
            IN  /\ accounts'[username].balance = d
                /\ d >= 0
                /\ d > 0 =>
                       /\ Len(history) = 1
                       /\ history[1].type = "Account Creation Deposit"
                       /\ history[1].amount = d
                       /\ history[1].balance_after = d
                /\ d = 0 => history = <<>>
      ]_vars

\* C14: in every reachable state no two accounts have the same account id.
C14_AccountIdsUnique ==
    \A u1, u2 \in DOMAIN accounts :
        u1 # u2 => accounts[u1].account_id # accounts[u2].account_id

Locked == "Account locked due to too many failed attempts. Try again later."

\* username has reached the threshold of failures
at_threshold(username) ==
    /\ username \in DOMAIN failed_attempts
    /\ failed_attempts[username].count >= MAX_ATTEMPTS

\* C15 as stated: once a username has five failures, an authenticate made less
\* than 3600 seconds after the last of them fails as locked and changes neither
\* the failures nor the session.
C15_LockedWithinTheHour ==
    [][(/\ ret'.op = "authenticate"
        /\ at_threshold(ret'.args[1])
        /\ now - failed_at[ret'.args[1]] < LOCK_SECONDS * TicksPerSecond) =>
            /\ ~ret'.ok
            /\ ret'.msg = Locked
            /\ UNCHANGED loginVars
      ]_vars

\* C15: once a username has five failures, an authenticate made less than 3600
\* seconds after the time recorded for the last of them, which is the time of
\* the failure cut to the whole second, fails as locked, whatever the password,
\* and changes neither the failures nor the session.
C15_LockedWithinTheRecordedHour ==
    [][(/\ ret'.op = "authenticate"
        /\ at_threshold(ret'.args[1])
        /\ now - strptime(failed_attempts[ret'.args[1]].timestamp)
              < LOCK_SECONDS * TicksPerSecond) =>
            /\ ~ret'.ok
            /\ ret'.msg = Locked
            /\ UNCHANGED loginVars
      ]_vars

\* the right password was refused, later than the fifth failure and within the hour
C15_Witness ==
    /\ ret.op = "authenticate" /\ ~ret.ok /\ ret.msg = Locked
    /\ ret.args[2] \in Passwords
    /\ at_threshold(ret.args[1])
    /\ now > failed_at[ret.args[1]]
    /\ now - strptime(failed_attempts[ret.args[1]].timestamp) < LOCK_SECONDS * TicksPerSecond

\* C16: when a username has five failures or more and 3600 seconds or more have
\* passed since the time recorded for the last, authenticate looks at the
\* password: the right one logs in, a wrong one is counted.
C16_LockEndsAfterTheHour ==
    [][(/\ ret'.op = "authenticate"
        /\ at_threshold(ret'.args[1])
        /\ now - strptime(failed_attempts[ret'.args[1]].timestamp)
              >= LOCK_SECONDS * TicksPerSecond) =>
            IF ret'.args[2] \in Passwords
            THEN ret'.ok
            ELSE /\ ~ret'.ok
                 /\ failed_attempts'[ret'.args[1]].count
                       = failed_attempts[ret'.args[1]].count + 1
      ]_vars

\* C17: an authenticate with a wrong password for a username that has an account
\* and is not locked (fewer than five failures, or 3600 seconds passed since the
\* time recorded for the last) raises the count of that username by one, records
\* the time, and reports 5 - count attempts remaining, or locked when none
\* remains; the failures of the other usernames stay as they were.
C17_WrongPasswordCounted ==
    [][(/\ ret'.op = "authenticate"
        /\ ret'.args[1] \in DOMAIN accounts
        /\ ret'.args[2] \notin Passwords
        /\ ~(/\ at_threshold(ret'.args[1])
             /\ now - strptime(failed_attempts[ret'.args[1]].timestamp)
                   < LOCK_SECONDS * TicksPerSecond)) =>
            LET username == ret'.args[1]
                before == IF username \in DOMAIN failed_attempts
                          THEN failed_attempts[username].count
                          ELSE 0
            IN  /\ ~ret'.ok
                /\ username \in DOMAIN failed_attempts'
                /\ failed_attempts'[username].count = before + 1
                /\ failed_attempts'[username].timestamp = strftime(now)
                /\ IF MAX_ATTEMPTS - (before + 1) > 0
                   THEN ret'.msg = "Incorrect password" /\ ret'.val = MAX_ATTEMPTS - (before + 1)
                   ELSE ret'.msg = Locked
                /\ \A user \in (DOMAIN failed_attempts \cup DOMAIN failed_attempts') \ {username} :
                       /\ user \in DOMAIN failed_attempts
                       /\ user \in DOMAIN failed_attempts'
                       /\ failed_attempts'[user] = failed_attempts[user]
      ]_vars

\* C18: a successful authenticate removes the failures of the username and of
\* no other, marks the session authenticated as that username with the present
\* time as login time, records the last login, and changes no balance, history,
\* loan or fixed deposit.
C18_LoginClearsFailures ==
    [][(ret'.op = "authenticate" /\ ret'.ok) =>
            LET username == ret'.args[1]
            IN  /\ username \notin DOMAIN failed_attempts'
                /\ DOMAIN failed_attempts' = DOMAIN failed_attempts \ {username}
                /\ \A user \in DOMAIN failed_attempts' :
                       failed_attempts'[user] = failed_attempts[user]
                /\ authenticated'
                /\ current_user' = username
                /\ login_time' = <<now>>
                /\ accounts'[username].last_login = <<strftime(now)>>
                /\ DOMAIN accounts' = DOMAIN accounts
                /\ \A user \in DOMAIN accounts :
                       accounts'[user].balance = accounts[user].balance
                /\ UNCHANGED <<transactions, loans, fixed_deposits>>
      ]_vars

\* a username that had failed before has logged in, and its failures are gone
C18_Witness ==
    /\ ret.op = "authenticate" /\ ret.ok
    /\ ret.args[1] \in DOMAIN failed_at
    /\ ret.args[1] \notin DOMAIN failed_attempts
    /\ authenticated /\ current_user = ret.args[1]

\* C19: authenticate for a username without an account fails as not found and
\* records no failure; failures are held only for usernames that have accounts.
C19_UnknownUsername ==
    [][ret'.op = "authenticate" =>
            /\ ret'.args[1] \notin DOMAIN accounts =>
                   /\ ~ret'.ok
                   /\ ret'.msg = "Username not found"
                   /\ UNCHANGED loginVars
            /\ DOMAIN failed_attempts' \subseteq DOMAIN accounts'
      ]_vars

\* a login was refused for a username that has no account
C19_Witness ==
    /\ ret.op = "authenticate" /\ ~ret.ok
    /\ ret.args[1] \notin DOMAIN accounts
    /\ ret.msg = "Username not found"

\* C20: check_session_timeout returns true, ending the session, when the session
\* is authenticated and more than 1800 seconds have passed since its login time;
\* otherwise it returns false and leaves the session as it was; it never changes
\* an account, a history, a loan or a fixed deposit.
C20_SessionTimeout ==
    [][ret'.op = "check_session_timeout" =>
            LET expired == /\ authenticated
                           /\ login_time # NoTime
                           /\ now - login_time[1] > SESSION_TIMEOUT * TicksPerSecond
            IN  /\ ret'.val = (IF expired THEN 1 ELSE 0)
                /\ expired => ~authenticated' /\ current_user' = None
                /\ ~expired => UNCHANGED <<authenticated, current_user, login_time>>
                /\ UNCHANGED <<accounts, transactions, loans, fixed_deposits, failed_attempts>>
      ]_vars

\* a session was ended one tick past the 1800 seconds
C20_Witness ==
    /\ ret.op = "check_session_timeout" /\ ret.val = 1
    /\ ~authenticated /\ current_user = None
    /\ now - login_time[1] = SESSION_TIMEOUT * TicksPerSecond + 1

\* the operations that change a ledger
LedgerOperations == Operations \ {"create_account"}

\* C21: an operation on the ledger runs only in an authenticated session, and
\* only on the account of the session's current user: the sender, for a transfer
\* that is confirmed.
C21_OnlyTheCurrentUser ==
    [][ret'.op \in LedgerOperations =>
            /\ authenticated
            /\ IF ret'.op = "confirm_transfer"
               THEN ret'.args[1] \in DOMAIN transfer_data =>
                        transfer_data[ret'.args[1]].sender = current_user
               ELSE ret'.args[1] = current_user
      ]_vars

\* the loans of username with status 'active'
active_loans(username) ==
    {i \in 1..Len(entries_of(loans, username)) : loans[username][i].status = "active"}

\* C22: a user never holds more than one active loan: apply_for_loan with a
\* positive amount and duration fails with "You already have an active loan"
\* while the user holds one, and succeeds only when every loan of the user is paid.
C22_OneActiveLoan ==
    [][/\ \A u \in DOMAIN loans' :
              Cardinality({i \in 1..Len(loans'[u]) : loans'[u][i].status = "active"}) <= 1
       /\ ret'.op = "apply_for_loan" =>
              LET u == ret'.args[1]
              IN  /\ (active_loans(u) # {} /\ ret'.args[2] > 0 /\ ret'.args[3] > 0) =>
                         /\ ~ret'.ok
                         /\ ret'.msg = "You already have an active loan"
                  /\ active_loans(u) # {} => ~ret'.ok
                  /\ ret'.ok =>
                         \A i \in 1..Len(entries_of(loans, u)) : loans[u][i].status = "paid"
      ]_vars

\* a second loan is granted once the first is paid
C22_Witness ==
    /\ ret.op = "apply_for_loan"
    /\ ret.ok
    /\ Len(loans["alice"]) = 2
    /\ loans["alice"][1].status = "paid"

\* (datetime.now() - account_created).days: the whole days since the account of
\* username was opened, by its record
account_age_days(username) ==
    days_between(now, strptime(accounts[username].created))

\* the message that the first failing check of apply_for_loan(username, amount,
\* duration_months) reports, in the order amount, duration, account age, active loan
apply_for_loan_message(username, amount, duration_months) ==
    IF amount <= 0 THEN "Loan amount must be positive"
    ELSE IF duration_months <= 0 THEN "Loan duration must be positive"
    ELSE IF account_age_days(username) < MIN_ACCOUNT_AGE_DAYS
    THEN "Account must be at least 3 months old to apply for a loan"
    ELSE IF active_loans(username) # {} THEN "You already have an active loan"
    ELSE "Loan approved!"

\* C23: apply_for_loan fails, creating no loan and disbursing nothing, when the
\* amount is <= 0, the duration is <= 0 or the account is less than 90 days old;
\* it reports the first check that fails in the order amount, duration, account
\* age, active loan, and succeeds when none fails.
C23_ApplyChecksInOrder ==
    [][ret'.op = "apply_for_loan" =>
           LET message == apply_for_loan_message(ret'.args[1], ret'.args[2], ret'.args[3])
           IN  /\ ret'.msg = message
               /\ ret'.ok <=> message = "Loan approved!"
               /\ ~ret'.ok => UNCHANGED <<accounts, transactions, loans, uuid>>
      ]_vars

\* an application with amount 0 and duration 0 on a new account: the amount is
\* reported
C23_Witness ==
    /\ ret.op = "apply_for_loan"
    /\ ret.args = <<"alice", 0, 0>>
    /\ ret.msg = "Loan amount must be positive"
    /\ account_age_days("alice") < MIN_ACCOUNT_AGE_DAYS

\* C24: a successful apply_for_loan(P, m) creates one loan, the user's only active
\* one, with no payment made, a monthly payment of round(P * 1.05 / m) (the
\* nearest integer, the even one of two) and a remaining balance of P * 1.05; it
\* credits the account with exactly P and appends one Loan Disbursement record of P.
C24_LoanGranted ==
    [][(ret'.op = "apply_for_loan" /\ ret'.ok) =>
           LET u == ret'.args[1]
               P == ret'.args[2]
               m == ret'.args[3]
               before == entries_of(loans, u)
               after == loans'[u]
               loan == after[Len(after)]
               records == transactions'[u]
               off == loan.monthly_payment * 100 * m - P * (100 + LOAN_RATE_PCT)
               distance == IF off < 0 THEN -off ELSE off
           IN  /\ after = Append(before, loan)
               /\ loan.id = ret'.val
               /\ loan.id \notin ids_of(before)
               /\ loan.amount = P
               /\ loan.duration_months = m
               /\ loan.status = "active"
               /\ \A i \in 1..Len(before) : before[i].status # "active"
               /\ loan.payments_made = 0
               /\ 2 * distance <= 100 * m
               /\ 2 * distance = 100 * m => loan.monthly_payment % 2 = 0
               /\ loan.remaining_balance * 100 = P * (100 + LOAN_RATE_PCT) * RemScale
               /\ accounts' = [accounts EXCEPT ![u].balance = @ + P]
               /\ Len(records) = Len(transactions[u]) + 1
               /\ SubSeq(records, 1, Len(transactions[u])) = transactions[u]
               /\ records[Len(records)].type = "Loan Disbursement"
               /\ records[Len(records)].amount = P
               /\ \A v \in DOMAIN transactions \ {u} : transactions'[v] = transactions[v]
      ]_vars

\* the largest loan is granted over 2 months, with a monthly payment rounded
\* down (for 20: 10.5 a month, which rounds to 10)
C24_Witness ==
    /\ ret.op = "apply_for_loan"
    /\ ret.ok
    /\ ret.args = <<"alice", MaxLoan, 2>>
    /\ entry(loans["alice"], ret.val).monthly_payment * 2 * 100 < MaxLoan * (100 + LOAN_RATE_PCT)
    /\ accounts["alice"].balance >= MaxLoan

\* the message that the first failing check of make_loan_payment(username,
\* loan_id, amount) reports, in the order not found, not active, amount <= 0,
\* amount over the balance, amount under the monthly payment
make_loan_payment_message(username, loan_id, amount) ==
    IF loan_id \notin ids_of(entries_of(loans, username)) THEN "Loan not found"
    ELSE LET loan == entry(loans[username], loan_id)
         IN  IF loan.status # "active" THEN "Loan is not active"
             ELSE IF amount <= 0 THEN "Payment amount must be positive"
             ELSE IF amount > accounts[username].balance THEN "Insufficient funds for payment"
             ELSE IF amount < loan.monthly_payment THEN "Minimum payment required"
             ELSE "Payment applied"

\* C25: make_loan_payment fails when the loan is not found, is not active, the
\* amount is <= 0, exceeds the balance or is under the monthly payment; it
\* reports the first of these in that order, succeeds when none applies, and a
\* failure changes nothing.
C25_PaymentChecksInOrder ==
    [][ret'.op = "make_loan_payment" =>
           LET message == make_loan_payment_message(ret'.args[1], ret'.args[2], ret'.args[3])
           IN  /\ ret'.msg = message
               /\ ret'.ok <=> message = "Payment applied"
               /\ ~ret'.ok => UNCHANGED <<accounts, transactions, loans, uuid>>
      ]_vars

\* a payment over the balance and under the monthly payment: the funds are
\* reported
C25_Witness ==
    /\ ret.op = "make_loan_payment"
    /\ ret.msg = "Insufficient funds for payment"
    /\ ret.args[3] < entry(loans["alice"], ret.args[2]).monthly_payment

\* C26: a successful payment of a debits the account by a, takes a off the
\* loan's remaining balance, adds 1 to its payments made and appends one Loan
\* Payment record of a; no other step changes the remaining balance of a loan.
C26_PaymentApplied ==
    [][IF ret'.op = "make_loan_payment" /\ ret'.ok
       THEN LET u == ret'.args[1]
                l == ret'.args[2]
                a == ret'.args[3]
                records == transactions'[u]
            IN  /\ Len(loans'[u]) = Len(loans[u])
                /\ \A i \in 1..Len(loans[u]) :
                       IF loans[u][i].id = l
                       THEN /\ loans'[u][i].id = l
                            /\ loans'[u][i].remaining_balance =
                                   loans[u][i].remaining_balance - a * RemScale
                            /\ loans'[u][i].payments_made = loans[u][i].payments_made + 1
                       ELSE loans'[u][i] = loans[u][i]
                /\ \A v \in DOMAIN loans \ {u} : loans'[v] = loans[v]
                /\ accounts' = [accounts EXCEPT ![u].balance = @ - a]
                /\ Len(records) = Len(transactions[u]) + 1
                /\ SubSeq(records, 1, Len(transactions[u])) = transactions[u]
                /\ records[Len(records)].type = "Loan Payment"
                /\ records[Len(records)].amount = a
                /\ \A v \in DOMAIN transactions \ {u} : transactions'[v] = transactions[v]
       ELSE \A u \in DOMAIN loans :
                \A i \in 1..Len(loans[u]) :
                    /\ loans'[u][i].id = loans[u][i].id
                    /\ loans'[u][i].remaining_balance = loans[u][i].remaining_balance
      ]_vars

\* a payment is made on a loan, which stays active
C26_Witness ==
    /\ ret.op = "make_loan_payment"
    /\ ret.ok
    /\ entry(loans[ret.args[1]], ret.args[2]).payments_made = 1
    /\ entry(loans[ret.args[1]], ret.args[2]).status = "active"

\* C27: a loan is active while its remaining balance is > 0 and paid from the
\* payment that brings it to <= 0: after every step a loan is active if and only
\* if its remaining balance is > 0, only a successful payment on it makes it
\* paid, a paid loan never becomes active again, and a payment on a paid loan
\* fails with "Loan is not active".
C27_PaidAtZero ==
    [][/\ \A u \in DOMAIN loans' :
              \A i \in 1..Len(loans'[u]) :
                  /\ loans'[u][i].status \in {"active", "paid"}
                  /\ loans'[u][i].status = "active" <=> loans'[u][i].remaining_balance > 0
       /\ \A u \in DOMAIN loans :
              \A i \in 1..Len(loans[u]) :
                  /\ loans[u][i].status = "paid" => loans'[u][i] = loans[u][i]
                  /\ (loans[u][i].status = "active" /\ loans'[u][i].status = "paid") =>
                         /\ ret'.op = "make_loan_payment"
                         /\ ret'.ok
                         /\ ret'.args = <<u, loans[u][i].id, ret'.args[3]>>
       /\ (/\ ret'.op = "make_loan_payment"
           /\ ret'.args[2] \in ids_of(entries_of(loans, ret'.args[1]))
           /\ entry(loans[ret'.args[1]], ret'.args[2]).status = "paid") =>
              /\ ~ret'.ok
              /\ ret'.msg = "Loan is not active"
      ]_vars

\* a payment is refused on a loan that was paid to exactly 0
C27_Witness ==
    /\ ret.op = "make_loan_payment"
    /\ ret.msg = "Loan is not active"
    /\ entry(loans["alice"], ret.args[2]).remaining_balance = 0
    /\ entry(loans["alice"], ret.args[2]).status = "paid"

\* C28: a loan over m months that has received only payments of its monthly
\* payment is active before the m-th of them and paid after it.
C28_PaidAfterTheLastPayment ==
    \A u \in DOMAIN loans :
        \A i \in 1..Len(loans[u]) :
            LET loan == loans[u][i]
                total == (loan.amount * (100 + LOAN_RATE_PCT) * RemScale) \div 100
            IN  loan.remaining_balance =
                    total - loan.payments_made * loan.monthly_payment * RemScale =>
                    /\ loan.payments_made < loan.duration_months => loan.status = "active"
                    /\ loan.payments_made = loan.duration_months => loan.status = "paid"

\* C29: a successful create_fixed_deposit(A, m) debits the account by exactly A,
\* appends one Fixed Deposit Creation record of A and creates an active deposit
\* of principal A, maturity amount round(A * (1 + 0.07 * m / 12)) and a maturity
\* date 30 * m days after the second of its creation; the maturity date and
\* amount of a deposit never change afterwards.
C29_DepositCreated ==
    [][/\ (ret'.op = "create_fixed_deposit" /\ ret'.ok) =>
              LET u == ret'.args[1]
                  A == ret'.args[2]
                  m == ret'.args[3]
                  before == entries_of(fixed_deposits, u)
                  after == fixed_deposits'[u]
                  fd == after[Len(after)]
                  records == transactions'[u]
              IN  /\ after = Append(before, fd)
                  /\ fd.id = ret'.val
                  /\ fd.id \notin ids_of(before)
                  /\ fd.status = "active"
                  /\ fd.principal = A
                  /\ fd.maturity_amount =
                         round_div(A * (1200 + FIXED_DEPOSIT_RATE_PCT * m), 1200)
                  /\ fd.start_date = strftime(now)
                  /\ strptime(fd.maturity_date) =
                         strptime(fd.start_date) + timedelta_days(FD_MONTH_DAYS * m)
                  /\ accounts' = [accounts EXCEPT ![u].balance = @ - A]
                  /\ Len(records) = Len(transactions[u]) + 1
                  /\ SubSeq(records, 1, Len(transactions[u])) = transactions[u]
                  /\ records[Len(records)].type = "Fixed Deposit Creation"
                  /\ records[Len(records)].amount = A
       /\ \A u \in DOMAIN fixed_deposits :
              \A i \in 1..Len(fixed_deposits[u]) :
                  /\ fixed_deposits'[u][i].id = fixed_deposits[u][i].id
                  /\ fixed_deposits'[u][i].maturity_date = fixed_deposits[u][i].maturity_date
                  /\ fixed_deposits'[u][i].maturity_amount = fixed_deposits[u][i].maturity_amount
      ]_vars

\* the Fixed Deposit Maturity records of username for the deposit fd_id, in records
maturity_records(records, username, fd_id) ==
    {i \in 1..Len(entries_of(records, username)) :
        /\ records[username][i].type = "Fixed Deposit Maturity"
        /\ records[username][i].description = <<"FD ID", fd_id>>}

\* C30: close_fixed_deposit on an active deposit fails with "Fixed deposit has
\* not matured yet" before the maturity date; at or after it, it succeeds,
\* credits exactly the maturity amount, appends one Fixed Deposit Maturity record
\* of it and closes the deposit; on a closed deposit it fails with "Fixed deposit
\* is not active". A failure changes nothing, and a deposit is credited once:
\* it has one maturity record if it is closed and none otherwise.
C30_ClosedOnceAtMaturity ==
    [][/\ (/\ ret'.op = "close_fixed_deposit"
           /\ ret'.args[2] \in ids_of(entries_of(fixed_deposits, ret'.args[1]))) =>
              LET u == ret'.args[1]
                  fd == entry(fixed_deposits[u], ret'.args[2])
                  records == transactions'[u]
              IN  IF fd.status # "active"
                  THEN /\ ~ret'.ok
                       /\ ret'.msg = "Fixed deposit is not active"
                       /\ UNCHANGED <<accounts, transactions, fixed_deposits, uuid>>
                  ELSE IF now < strptime(fd.maturity_date)
                  THEN /\ ~ret'.ok
                       /\ ret'.msg = "Fixed deposit has not matured yet"
                       /\ UNCHANGED <<accounts, transactions, fixed_deposits, uuid>>
                  ELSE /\ ret'.ok
                       /\ accounts' = [accounts EXCEPT ![u].balance = @ + fd.maturity_amount]
                       /\ Len(records) = Len(transactions[u]) + 1
                       /\ SubSeq(records, 1, Len(transactions[u])) = transactions[u]
                       /\ records[Len(records)].type = "Fixed Deposit Maturity"
                       /\ records[Len(records)].amount = fd.maturity_amount
                       /\ entry(fixed_deposits'[u], fd.id).status = "closed"
       /\ \A u \in DOMAIN fixed_deposits' :
              \A i \in 1..Len(fixed_deposits'[u]) :
                  LET fd == fixed_deposits'[u][i]
                  IN  /\ fd.status \in {"active", "closed"}
                      /\ Cardinality(maturity_records(transactions', u, fd.id)) =
                             IF fd.status = "closed" THEN 1 ELSE 0
      ]_vars

\* a deposit is closed at the very tick of its maturity date
C30_Witness ==
    /\ ret.op = "close_fixed_deposit"
    /\ ret.ok
    /\ now = strptime(entry(fixed_deposits["alice"], ret.args[2]).maturity_date)
    /\ accounts["alice"].balance > MaxPrincipal

\* ------------------------------------------------------------------ C31
\* the operations that change what is saved
SavingOperations ==
    {"create_account", "authenticate", "deposit", "withdraw", "confirm_transfer",
     "apply_for_loan", "make_loan_payment", "create_fixed_deposit", "close_fixed_deposit"}

stored_balance(document, username) == json_get(document, "accounts")[username].balance

\* C32: a request of this session that ends in a successful deposit or withdrawal
\* acts on the balance that DATA_FILE holds, and moves that stored balance by its
\* amount, whatever requests of another session have run since it loaded.
C32_NoLostUpdate ==
    [][(ret.op = "load_data" /\ ret'.op \in {"deposit", "withdraw"} /\ ret'.ok) =>
          LET username == ret'.args[1]
              amount == IF ret'.op = "deposit" THEN ret'.args[2] ELSE -ret'.args[2]
          IN  /\ accounts[username].balance = stored_balance(file, username)
              /\ stored_balance(file', username) = stored_balance(file, username) + amount
      ]_vars

\* ------------------------------------------------------------------ C33
\* the document holds a loan that is active with nothing left to pay
active_paid_loan(document) ==
    LET saved == json_get(document, "loans")
    IN  \E username \in DOMAIN saved : \E i \in 1 .. Len(saved[username]) :
            /\ saved[username][i].remaining_balance <= 0
            /\ saved[username][i].status = "active"

\* the document holds a fixed deposit that is active with its maturity amount
\* recorded as credited
active_credited_deposit(document) ==
    LET saved == json_get(document, "fixed_deposits")
        records == json_get(document, "transactions")
    IN  \E username \in DOMAIN saved \cap DOMAIN records :
            \E i \in 1 .. Len(saved[username]), j \in 1 .. Len(records[username]) :
                /\ saved[username][i].status = "active"
                /\ records[username][j].type = "Fixed Deposit Maturity"
                /\ records[username][j].description = <<"FD ID", saved[username][i].id>>

\* the document holds the one record of a transfer without the other
half_recorded_transfer(document) ==
    LET records == json_get(document, "transactions")
        held(type, id) ==
            \E username \in DOMAIN records : \E i \in 1 .. Len(records[username]) :
                records[username][i].type = type /\ records[username][i].id = id
    IN  \E id \in 1 .. uuid :
            held("Transfer Out", id) # held("Transfer In", id)

\* C33: every document that a call has written to DATA_FILE, the ones written
\* by record_transaction in the middle of the call too, holds no active loan
\* with a remaining balance of zero or less, no active fixed deposit whose
\* maturity amount has been credited, and no transfer with one record of its two.
C33_SavedAtBoundaries ==
    \A i \in 1 .. Len(ret.written) :
        /\ ~active_paid_loan(ret.written[i])
        /\ ~active_credited_deposit(ret.written[i])
        /\ ~half_recorded_transfer(ret.written[i])

\* ------------------------------------------------------------------ C34
Credits ==
    {"Account Creation Deposit", "Deposit", "Transfer In", "Loan Disbursement",
     "Fixed Deposit Maturity"}

Debits == {"Withdrawal", "Transfer Out", "Loan Payment", "Fixed Deposit Creation"}

\* the sum of the amounts of the credit records less that of the debit records
RECURSIVE net_recorded(_)
net_recorded(records) ==
    IF records = <<>> THEN 0
    ELSE LET record == records[Len(records)]
         IN  net_recorded(SubSeq(records, 1, Len(records) - 1))
             + (IF record.type \in Credits THEN record.amount
                ELSE IF record.type \in Debits THEN -record.amount
                ELSE 0)

\* C34: the balance of every account is the sum of the amounts of its credit
\* records less the sum of the amounts of its debit records, and the balance_after
\* of the record made last for the account is its balance.
C34_BalanceIsRecorded ==
    \A username \in DOMAIN accounts :
        LET records == entries_of(transactions, username)
        IN  /\ accounts[username].balance = net_recorded(records)
            /\ records # <<>> => records[Len(records)].balance_after = accounts[username].balance

\* ------------------------------------------------------------------ C35
\* C35: every recorded transaction has an amount above zero.
C35_PositiveAmounts ==
    \A username \in DOMAIN transactions : \A i \in 1 .. Len(transactions[username]) :
        transactions[username][i].amount > 0

\* ------------------------------------------------------------------ C36
\* C36: the remaining balance of a loan, which is what was owed less what has
\* been paid, is never below zero.
C36_NeverOverpaid ==
    \A username \in DOMAIN loans : \A i \in 1 .. Len(loans[username]) :
        loans[username][i].remaining_balance >= 0

\* ------------------------------------------------------------------ C37
\* the Transfer panel of the dashboard shows the confirmation view of a pending
\* transfer
confirmation_shown ==
    authenticated /\ transfer_confirmation /\ transfer_id \in DOMAIN transfer_data

\* C37: the confirmation view of a pending transfer is shown only to the
\* transfer's sender, whoever was logged in before in the session, and a transfer
\* is confirmed only in a session of its sender.
C37_OnlyTheSenderConfirms ==
    [][/\ confirmation_shown' => transfer_data'[transfer_id'].sender = current_user'
       /\ (ret'.op = "confirm_transfer" /\ ret'.ok) =>
              transfer_data[ret'.args[1]].sender = current_user
      ]_vars

====
